---- MODULE Spec2Model ----
(***************************************************************************)
(* Budget Tracker: month navigation, form validation, budget status,       *)
(* percentage display, the budgets/expenses tables with their constraints  *)
(* and row level security policies, and the API client.                    *)
(*                                                                         *)
(* Strings the code inspects character by character (month tokens, amount  *)
(* inputs) are sequences of one-character strings.  Each part of the       *)
(* program has its own specification; the variables of the other parts     *)
(* rest in their idle state.                                               *)
(***************************************************************************)
EXTENDS Integers, Sequences, FiniteSets, TLC

(***************************************************************************)
(* Bounds                                                                  *)
(***************************************************************************)
\* row ids (primary keys) that exist
MaxId == 2

\* number of month navigation clicks explored from the initial month
MaxNav == 3

\* list requests that may be in flight at once
MaxInFlight == 2

\* years the host clock may show when a page is mounted
ClockYears == {1000, 2024, 9999}

VARIABLES
  navPage,    \* the page whose month selector is mounted
  month,      \* the page's month state
  navCount,   \* navigation clicks so far
  lastNav     \* the last click: the token it started from and its delta

VARIABLES
  formPage,        \* the mounted page: "expenses" or "budgets"
  items,           \* expenses / budgets state: the displayed list
  loading,         \* loading state
  listInFlight,    \* list requests (getExpenses / getBudgets) in flight
  totalBudget,     \* Budgets: totalBudget state
  totalSpent,      \* Budgets: totalSpent state
  modalOpen,       \* modalOpen state
  editing,         \* editingExpense / editingBudget state (NoRow for null)
  formAmount,      \* formData.amount
  formCategory,    \* formData.category
  submitting,      \* submitting state
  writeInFlight,   \* the create/update request in flight (NoWrite for none)
  toast,           \* the last toast shown
  deleteInFlight,  \* delete requests in flight, counted by row id
  lastDelete       \* the last click on a delete button and its confirm() answer

VARIABLES
  authPage,         \* the mounted page: "signup" or "login"
  location,         \* the router's current path
  fullName,         \* Signup: fullName state
  email,            \* email state
  password,         \* password state
  confirmPassword,  \* Signup: confirmPassword state
  authLoading,      \* the page's loading state
  authCall,         \* the signUp / signIn call in flight (NoCall for none)
  authToast         \* the last toast shown

VARIABLES
  view,       \* what is rendered: "budgetCards", "dashboard", "budgetsSummary"
  renderIn,   \* the state the render reads
  renderOut   \* what the render shows (NotRendered before it ran)

VARIABLES
  dbTable,    \* the table the statements address: "expenses" or "budgets"
  rows,       \* the rows stored in that table
  lastStmt    \* the last statement: who issued it, its error, its result rows

VARIABLES
  apiToken,         \* api.token
  lastSetToken,     \* the argument of the most recent api.setToken call
  session,          \* AuthProvider: session state
  user,             \* AuthProvider: user state
  providerLoading,  \* AuthProvider: loading state
  sessionPending,   \* the getSession() promise has not resolved yet
  routePath,        \* the router's location inside AuthProvider
  routeShown,       \* the element AppRoutes shows at that location
  lastVisit,        \* the path the router was last sent to
  lastRequest,      \* the last request api.request sent, with its response
  lastOutcome       \* how that call of api.request ended

VARIABLES
  dashMonth,    \* Dashboard: month state
  dashData,     \* Dashboard: data state
  dashAlerts,   \* Dashboard: alerts state
  dashLoading,  \* Dashboard: loading state
  dashFetch,    \* the getDashboard and getAlerts requests of the fetch under way
  dashFetches,  \* calls of fetchDashboard so far
  dashToast,    \* the last toast shown
  dashOutcome   \* how the most recent fetchDashboard to finish ended

VARIABLES
  listPage,         \* the mounted page: "budgets" or "expenses"
  listFilters,      \* Budgets: month state; Expenses: filters state
  listItems,        \* budgets / expenses state
  listTotalBudget,  \* Budgets: totalBudget state
  listTotalSpent,   \* Budgets: totalSpent state
  listLoading,      \* loading state
  listPending,      \* the getBudgets / getExpenses requests in flight
  listIssued,       \* calls of fetchBudgets / fetchExpenses so far
  listToast         \* the last toast shown

navVars == <<navPage, month, navCount, lastNav>>

listVars ==
  <<listPage, listFilters, listItems, listTotalBudget, listTotalSpent,
    listLoading, listPending, listIssued, listToast>>

dashVars ==
  <<dashMonth, dashData, dashAlerts, dashLoading, dashFetch, dashFetches,
    dashToast, dashOutcome>>

apiVars ==
  <<apiToken, lastSetToken, session, user, providerLoading, sessionPending,
    routePath, routeShown, lastVisit, lastRequest, lastOutcome>>

dbVars == <<dbTable, rows, lastStmt>>

renderVars == <<view, renderIn, renderOut>>

authVars ==
  <<authPage, location, fullName, email, password, confirmPassword,
    authLoading, authCall, authToast>>

formVars ==
  <<formPage, items, loading, listInFlight, totalBudget, totalSpent,
    modalOpen, editing, formAmount, formCategory, submitting, writeInFlight,
    toast, deleteInFlight, lastDelete>>

vars ==
  <<navVars, formVars, authVars, renderVars, dbVars, apiVars, dashVars,
    listVars>>

\* the variables outside each part
notNav ==
  <<formVars, authVars, renderVars, dbVars, apiVars, dashVars, listVars>>
notForms ==
  <<navVars, authVars, renderVars, dbVars, apiVars, dashVars, listVars>>
notAuth ==
  <<navVars, formVars, renderVars, dbVars, apiVars, dashVars, listVars>>
notRender ==
  <<navVars, formVars, authVars, dbVars, apiVars, dashVars, listVars>>
notDb ==
  <<navVars, formVars, authVars, renderVars, apiVars, dashVars, listVars>>
notDash ==
  <<navVars, formVars, authVars, renderVars, dbVars, apiVars, listVars>>
notApi ==
  <<navVars, formVars, authVars, renderVars, dbVars, dashVars, listVars>>
notList ==
  <<navVars, formVars, authVars, renderVars, dbVars, apiVars, dashVars>>

(***************************************************************************)
(* JavaScript string helpers                                               *)
(***************************************************************************)
Digits == <<"0", "1", "2", "3", "4", "5", "6", "7", "8", "9">>

DigitChar(d) == Digits[d + 1]

IsDigit(c) == \E d \in 0..9 : Digits[d + 1] = c

DigitVal(c) == CHOOSE d \in 0..9 : Digits[d + 1] = c

RECURSIVE NatToStr(_)
\* String(n) for a non-negative integer n
NatToStr(n) ==
  IF n < 10 THEN <<DigitChar(n)>>
  ELSE NatToStr(n \div 10) \o <<DigitChar(n % 10)>>

\* String(n) for an integer n
NumToStr(n) == IF n < 0 THEN <<"-">> \o NatToStr(0 - n) ELSE NatToStr(n)

RECURSIVE PadStart(_, _, _)
\* String.prototype.padStart with a one-character pad string
PadStart(s, len, ch) ==
  IF Len(s) >= len THEN s ELSE PadStart(<<ch>> \o s, len, ch)

RECURSIVE Split(_, _)
\* String.prototype.split on a one-character separator
Split(s, sep) ==
  IF \A i \in 1..Len(s) : s[i] # sep THEN <<s>>
  ELSE LET k == CHOOSE i \in 1..Len(s) :
                  s[i] = sep /\ \A j \in 1..(i - 1) : s[j] # sep
       IN  <<SubSeq(s, 1, k - 1)>> \o Split(SubSeq(s, k + 1, Len(s)), sep)

RECURSIVE DigitsToNat(_)
DigitsToNat(s) ==
  IF Len(s) = 0 THEN 0
  ELSE 10 * DigitsToNat(SubSeq(s, 1, Len(s) - 1)) + DigitVal(s[Len(s)])

\* Number(s) for the pieces of a month token: "" is 0, a digit string is its
\* decimal value (leading zeros ignored)
ToNumber(s) == DigitsToNat(s)

(***************************************************************************)
(* Month tokens                                                            *)
(***************************************************************************)
\* getCurrentMonth() without padStart
getCurrentMonthNoPad(y, m0) ==
  NumToStr(y) \o <<"-">> \o NumToStr(m0 + 1)

\* getCurrentMonth() when the clock shows full year y and month index m0
\* (Date.getMonth() is 0..11)
getCurrentMonth(y, m0) ==
  NumToStr(y) \o <<"-">> \o PadStart(NumToStr(m0 + 1), 2, "0")

\* Dashboard.changeMonth with the year carry left out
DashboardChangeMonthNoCarry(tok, delta) ==
  LET parts == Split(tok, "-")
      year == ToNumber(parts[1])
      mon == ToNumber(parts[2])
      stepped == mon + delta
      newMonth == IF stepped > 12 THEN 1 ELSE IF stepped < 1 THEN 12 ELSE stepped
  IN  NumToStr(year) \o <<"-">> \o PadStart(NumToStr(newMonth), 2, "0")

\* Dashboard.changeMonth: the token passed to setMonth
DashboardChangeMonth(tok, delta) ==
  LET parts == Split(tok, "-")
      year == ToNumber(parts[1])
      mon == ToNumber(parts[2])
      stepped == mon + delta
      newMonth == IF stepped > 12 THEN 1 ELSE IF stepped < 1 THEN 12 ELSE stepped
      newYear == IF stepped > 12 THEN year + 1
                 ELSE IF stepped < 1 THEN year - 1 ELSE year
  IN  NumToStr(newYear) \o <<"-">> \o PadStart(NumToStr(newMonth), 2, "0")

\* Budgets.changeMonth with newYear-- left out
BudgetsChangeMonthNoBorrow(tok, delta) ==
  LET parts == Split(tok, "-")
      year == ToNumber(parts[1])
      mon == ToNumber(parts[2])
      stepped == mon + delta
      newMonth == IF stepped > 12 THEN 1 ELSE IF stepped < 1 THEN 12 ELSE stepped
      newYear == IF stepped > 12 THEN year + 1 ELSE year
  IN  NumToStr(newYear) \o <<"-">> \o PadStart(NumToStr(newMonth), 2, "0")

\* Budgets.changeMonth: the token passed to setMonth
BudgetsChangeMonth(tok, delta) ==
  LET parts == Split(tok, "-")
      year == ToNumber(parts[1])
      mon == ToNumber(parts[2])
      stepped == mon + delta
      newMonth == IF stepped > 12 THEN 1 ELSE IF stepped < 1 THEN 12 ELSE stepped
      newYear == IF stepped > 12 THEN year + 1
                 ELSE IF stepped < 1 THEN year - 1 ELSE year
  IN  NumToStr(newYear) \o <<"-">> \o PadStart(NumToStr(newMonth), 2, "0")

(***************************************************************************)
(* Month navigation                                                        *)
(***************************************************************************)
NoNav == [from |-> <<>>, delta |-> 0]

InitNav ==
  /\ navPage \in {"dashboard", "budgets"}
  /\ \E y \in ClockYears, m0 \in 0..11 : month = getCurrentMonth(y, m0)
  /\ navCount = 0
  /\ lastNav = NoNav

\* a click on the previous/next month button of the Dashboard
DashboardClickMonth(delta) ==
  /\ navPage = "dashboard"
  /\ navCount < MaxNav
  /\ month' = DashboardChangeMonth(month, delta)
  /\ navCount' = navCount + 1
  /\ lastNav' = [from |-> month, delta |-> delta]
  /\ UNCHANGED navPage
  /\ UNCHANGED notNav

\* a click on the previous/next month button of the Budgets page
BudgetsClickMonth(delta) ==
  /\ navPage = "budgets"
  /\ navCount < MaxNav
  /\ month' = BudgetsChangeMonth(month, delta)
  /\ navCount' = navCount + 1
  /\ lastNav' = [from |-> month, delta |-> delta]
  /\ UNCHANGED navPage
  /\ UNCHANGED notNav

(***************************************************************************)
(* Amount inputs                                                           *)
(***************************************************************************)
\* number of leading digits of s from position i on
RECURSIVE DigitRun(_, _)
DigitRun(s, i) ==
  IF i <= Len(s) /\ IsDigit(s[i]) THEN 1 + DigitRun(s, i + 1) ELSE 0

NaN == [nan |-> TRUE, neg |-> FALSE, mant |-> 0, scale |-> 0]

\* parseFloat(s) for s without leading white space, exponent or "Infinity":
\* the longest prefix  [+-] digits [. digits]  |  [+-] . digits  is the
\* value (-1)^neg * mant / 10^scale; NaN when no such prefix exists
parseFloat(s) ==
  LET signed == Len(s) >= 1 /\ s[1] \in {"-", "+"}
      start == IF signed THEN 2 ELSE 1
      intLen == DigitRun(s, start)
      dotAt == start + intLen
      hasDot == dotAt <= Len(s) /\ s[dotAt] = "."
      fracLen == IF hasDot THEN DigitRun(s, dotAt + 1) ELSE 0
  IN  IF intLen = 0 /\ fracLen = 0 THEN NaN
      ELSE [nan |-> FALSE,
            neg |-> signed /\ s[1] = "-",
            mant |-> DigitsToNat(SubSeq(s, start, start + intLen - 1) \o
                                 SubSeq(s, dotAt + 1, dotAt + fracLen)),
            scale |-> fracLen]

\* x < 0 in place of x <= 0
LtZero(x) == ~x.nan /\ x.mant > 0 /\ x.neg

\* x <= 0 for a parseFloat result (false for NaN, true for -0)
LeqZero(x) == ~x.nan /\ (x.mant = 0 \/ x.neg)

\* x > 0 for a parseFloat result
GtZero(x) == ~x.nan /\ x.mant > 0 /\ ~x.neg

\* Number.prototype.toString for an amount of c hundredths, c >= 0
AmountToString(c) ==
  LET whole == NatToStr(c \div 100)
      frac == c % 100
  IN  IF frac = 0 THEN whole
      ELSE IF frac % 10 = 0 THEN whole \o <<".", DigitChar(frac \div 10)>>
      ELSE whole \o <<".", DigitChar(frac \div 10), DigitChar(frac % 10)>>

\* what a user may have typed into the amount field
AmountInputs ==
  { <<>>, <<"0">>, <<"-", "0">>, <<"-", "5">>, <<"0", ".", "0">>,
    <<"5">>, <<".", "5">>, <<"-">> }

(***************************************************************************)
(* The Expenses and Budgets pages: list, modal form, submit                *)
(***************************************************************************)
CATEGORIES ==
  <<"Food", "Transport", "Entertainment", "Bills", "Shopping", "Health",
    "Education", "Other">>

CategoryValues == {CATEGORIES[i] : i \in 1..Len(CATEGORIES)}

\* the options of the category select the user is seen to pick
CategoryChoices == {"Food", "Transport", "Entertainment", "Other"}

\* the host clock's month when the page is mounted
MountMonth == getCurrentMonth(2024, 11)

\* rows the server may return (amount in hundredths)
Row1 == [id |-> 1, category |-> "Food", amount |-> 500]
Row2 == [id |-> 2, category |-> "Transport", amount |-> 50]

NoRow == [id |-> 0, category |-> "", amount |-> 0]

\* response bodies of the list endpoints; a field the body lacks is has = FALSE
ListBodies ==
  { [has |-> FALSE, rows |-> <<>>, total_budget |-> 0, total_spent |-> 0],
    [has |-> TRUE, rows |-> <<Row1>>, total_budget |-> 500, total_spent |-> 0],
    [has |-> TRUE, rows |-> <<Row1, Row2>>, total_budget |-> 550,
     total_spent |-> 600] }

NoWrite == [op |-> "none", id |-> 0, amount |-> NaN, category |-> "",
            month |-> <<>>]

\* ids of the rows the server may return
RowIds == {Row1.id, Row2.id}

NoDeletes == [id \in RowIds |-> 0]

NoDelete == [id |-> 0, confirmed |-> FALSE]

\* no month selector is mounted
NavIdle ==
  /\ navPage = "none"
  /\ month = <<>>
  /\ navCount = 0
  /\ lastNav = NoNav

\* no form page is mounted
FormsIdle ==
  /\ formPage = "none"
  /\ items = <<>>
  /\ loading = FALSE
  /\ listInFlight = 0
  /\ totalBudget = 0
  /\ totalSpent = 0
  /\ modalOpen = FALSE
  /\ editing = NoRow
  /\ formAmount = <<>>
  /\ formCategory = ""
  /\ submitting = FALSE
  /\ writeInFlight = NoWrite
  /\ toast = "none"
  /\ deleteInFlight = NoDeletes
  /\ lastDelete = NoDelete

\* the state after the first render and its effect: useState initial values,
\* and the list request issued by useEffect
InitForms ==
  /\ formPage \in {"expenses", "budgets"}
  /\ items = <<>>
  /\ loading = TRUE
  /\ listInFlight = 1
  /\ totalBudget = 0
  /\ totalSpent = 0
  /\ modalOpen = FALSE
  /\ editing = NoRow
  /\ formAmount = <<>>
  /\ formCategory = "Food"
  /\ submitting = FALSE
  /\ writeInFlight = NoWrite
  /\ toast = "none"
  /\ deleteInFlight = NoDeletes
  /\ lastDelete = NoDelete


\* e.message || fallback, for the message of a failed request
MessageOr(message, fallback) == IF message = "" THEN fallback ELSE message

\* messages a failed request may carry
ErrorMessages == {"", "Request failed"}

\* the rows of a sequence as a set
RowsOf(list) == {list[i] : i \in 1..Len(list)}

(*************************** Expenses page *********************************)
\* Expenses.fetchExpenses resolves with a response body
ExpensesFetchSucceeds(body) ==
  /\ formPage = "expenses"
  /\ listInFlight > 0
  /\ items' = (IF body.has THEN body.rows ELSE <<>>)
  /\ loading' = FALSE
  /\ listInFlight' = listInFlight - 1
  /\ UNCHANGED <<formPage, totalBudget, totalSpent, modalOpen, editing,
                 formAmount, formCategory, submitting, writeInFlight, toast>>
  /\ UNCHANGED <<deleteInFlight, lastDelete>>
  /\ UNCHANGED notForms

\* Expenses.fetchExpenses: the request fails
ExpensesFetchFails ==
  /\ formPage = "expenses"
  /\ listInFlight > 0
  /\ toast' = "Failed to load expenses"
  /\ loading' = FALSE
  /\ listInFlight' = listInFlight - 1
  /\ UNCHANGED <<formPage, items, totalBudget, totalSpent, modalOpen, editing,
                 formAmount, formCategory, submitting, writeInFlight>>
  /\ UNCHANGED <<deleteInFlight, lastDelete>>
  /\ UNCHANGED notForms

\* Expenses.openModal with category: '' for a new expense
ExpensesOpenModalBlankCategory(expense) ==
  /\ formPage = "expenses"
  /\ ~modalOpen
  /\ expense # NoRow => (~loading /\ expense \in RowsOf(items))
  /\ editing' = expense
  /\ formAmount' = (IF expense # NoRow THEN AmountToString(expense.amount)
                    ELSE <<>>)
  /\ formCategory' = (IF expense # NoRow THEN expense.category ELSE "")
  /\ modalOpen' = TRUE
  /\ UNCHANGED <<formPage, items, loading, listInFlight, totalBudget,
                 totalSpent, submitting, writeInFlight, toast>>
  /\ UNCHANGED <<deleteInFlight, lastDelete>>
  /\ UNCHANGED notForms

\* Expenses.openModal(expense); NoRow is the Add Expense button.  The modal
\* overlay covers the page, so the buttons are reachable only while it is
\* closed; the Edit buttons belong to the list, rendered when not loading.
ExpensesOpenModal(expense) ==
  /\ formPage = "expenses"
  /\ ~modalOpen
  /\ expense # NoRow => (~loading /\ expense \in RowsOf(items))
  /\ editing' = expense
  /\ formAmount' = (IF expense # NoRow THEN AmountToString(expense.amount)
                    ELSE <<>>)
  /\ formCategory' = (IF expense # NoRow THEN expense.category ELSE "Food")
  /\ modalOpen' = TRUE
  /\ UNCHANGED <<formPage, items, loading, listInFlight, totalBudget,
                 totalSpent, submitting, writeInFlight, toast>>
  /\ UNCHANGED <<deleteInFlight, lastDelete>>
  /\ UNCHANGED notForms

\* Expenses.closeModal
ExpensesCloseModal ==
  /\ formPage = "expenses"
  /\ modalOpen
  /\ modalOpen' = FALSE
  /\ editing' = NoRow
  /\ UNCHANGED <<formPage, items, loading, listInFlight, totalBudget,
                 totalSpent, formAmount, formCategory, submitting,
                 writeInFlight, toast>>
  /\ UNCHANGED <<deleteInFlight, lastDelete>>
  /\ UNCHANGED notForms

\* onChange of the amount input of the expense form
ExpensesSetAmount(a) ==
  /\ formPage = "expenses"
  /\ modalOpen
  /\ formAmount' = a
  /\ UNCHANGED <<formPage, items, loading, listInFlight, totalBudget,
                 totalSpent, modalOpen, editing, formCategory, submitting,
                 writeInFlight, toast>>
  /\ UNCHANGED <<deleteInFlight, lastDelete>>
  /\ UNCHANGED notForms

\* onChange of the category select of the expense form
ExpensesSetCategory(c) ==
  /\ formPage = "expenses"
  /\ modalOpen
  /\ c \in CategoryValues
  /\ formCategory' = c
  /\ UNCHANGED <<formPage, items, loading, listInFlight, totalBudget,
                 totalSpent, modalOpen, editing, formAmount, submitting,
                 writeInFlight, toast>>
  /\ UNCHANGED <<deleteInFlight, lastDelete>>
  /\ UNCHANGED notForms

\* Expenses.handleSubmit calling api.createExpense whatever editingExpense is
ExpensesRequestAlwaysCreate ==
  [op |-> "createExpense", id |-> editing.id,
   amount |-> parseFloat(formAmount), category |-> formCategory,
   month |-> <<>>]

\* Expenses.handleSubmit: the request it sends, api.updateExpense(id, payload)
\* or api.createExpense(payload); id is 0 where there is none
ExpensesRequest ==
  [op |-> IF editing # NoRow THEN "updateExpense" ELSE "createExpense",
   id |-> editing.id, amount |-> parseFloat(formAmount),
   category |-> formCategory, month |-> <<>>]

\* Expenses.handleSubmit up to its await: validation, then the request;
\* the submit button is disabled while submitting
ExpensesHandleSubmit ==
  /\ formPage = "expenses"
  /\ modalOpen
  /\ ~submitting
  /\ IF formAmount = <<>> \/ LeqZero(parseFloat(formAmount))
     THEN /\ toast' = "Please enter a valid amount"
          /\ UNCHANGED <<submitting, writeInFlight>>
     ELSE /\ submitting' = TRUE
          /\ writeInFlight' = ExpensesRequest
          /\ UNCHANGED toast
  /\ UNCHANGED <<formPage, items, loading, listInFlight, totalBudget,
                 totalSpent, modalOpen, editing, formAmount, formCategory>>
  /\ UNCHANGED <<deleteInFlight, lastDelete>>
  /\ UNCHANGED notForms

\* Expenses.handleSubmit after its await resolved: toast, closeModal(),
\* fetchExpenses() up to its await, and the finally block
ExpensesWriteSucceeds ==
  /\ formPage = "expenses"
  /\ writeInFlight.op \in {"createExpense", "updateExpense"}
  /\ listInFlight < MaxInFlight
  /\ toast' = (IF writeInFlight.op = "updateExpense" THEN "Expense updated"
               ELSE "Expense added")
  /\ modalOpen' = FALSE
  /\ editing' = NoRow
  /\ loading' = TRUE
  /\ listInFlight' = listInFlight + 1
  /\ submitting' = FALSE
  /\ writeInFlight' = NoWrite
  /\ UNCHANGED <<formPage, items, totalBudget, totalSpent, formAmount,
                 formCategory>>
  /\ UNCHANGED <<deleteInFlight, lastDelete>>
  /\ UNCHANGED notForms

\* Expenses.handleSubmit after its await rejected: catch and finally
ExpensesWriteFails(message) ==
  /\ formPage = "expenses"
  /\ writeInFlight.op \in {"createExpense", "updateExpense"}
  /\ toast' = MessageOr(message, "Failed to save expense")
  /\ submitting' = FALSE
  /\ writeInFlight' = NoWrite
  /\ UNCHANGED <<formPage, items, loading, listInFlight, totalBudget,
                 totalSpent, modalOpen, editing, formAmount, formCategory>>
  /\ UNCHANGED <<deleteInFlight, lastDelete>>
  /\ UNCHANGED notForms

\* the number of delete requests in flight
DeleteCount == deleteInFlight[Row1.id] + deleteInFlight[Row2.id]

\* delete requests that may be in flight at once
MaxDeletes == 2

\* Expenses.handleDelete without the confirm() test
ExpensesHandleDeleteUnasked(id, confirmed) ==
  /\ formPage = "expenses"
  /\ ~modalOpen
  /\ ~loading
  /\ \E i \in 1..Len(items) : items[i].id = id
  /\ DeleteCount < MaxDeletes
  /\ lastDelete' = [id |-> id, confirmed |-> confirmed]
  /\ deleteInFlight' = [deleteInFlight EXCEPT ![id] = @ + 1]
  /\ UNCHANGED <<formPage, items, loading, listInFlight, totalBudget,
                 totalSpent, modalOpen, editing, formAmount, formCategory,
                 submitting, writeInFlight, toast>>
  /\ UNCHANGED notForms

\* Expenses.handleDelete(id) up to its await, with the answer to confirm();
\* the delete buttons belong to the list, rendered when not loading
ExpensesHandleDelete(id, confirmed) ==
  /\ formPage = "expenses"
  /\ ~modalOpen
  /\ ~loading
  /\ \E i \in 1..Len(items) : items[i].id = id
  /\ DeleteCount < MaxDeletes
  /\ lastDelete' = [id |-> id, confirmed |-> confirmed]
  /\ deleteInFlight' = (IF confirmed
                        THEN [deleteInFlight EXCEPT ![id] = @ + 1]
                        ELSE deleteInFlight)
  /\ UNCHANGED <<formPage, items, loading, listInFlight, totalBudget,
                 totalSpent, modalOpen, editing, formAmount, formCategory,
                 submitting, writeInFlight, toast>>
  /\ UNCHANGED notForms

\* Expenses.handleDelete after its await resolved: toast, fetchExpenses() up
\* to its await
ExpensesDeleteSucceeds(id) ==
  /\ formPage = "expenses"
  /\ deleteInFlight[id] > 0
  /\ listInFlight < MaxInFlight
  /\ deleteInFlight' = [deleteInFlight EXCEPT ![id] = @ - 1]
  /\ toast' = "Expense deleted"
  /\ loading' = TRUE
  /\ listInFlight' = listInFlight + 1
  /\ UNCHANGED <<formPage, items, totalBudget, totalSpent, modalOpen, editing,
                 formAmount, formCategory, submitting, writeInFlight,
                 lastDelete>>
  /\ UNCHANGED notForms

\* Expenses.handleDelete after its await rejected: catch
ExpensesDeleteFails(id) ==
  /\ formPage = "expenses"
  /\ deleteInFlight[id] > 0
  /\ deleteInFlight' = [deleteInFlight EXCEPT ![id] = @ - 1]
  /\ toast' = "Failed to delete expense"
  /\ UNCHANGED <<formPage, items, loading, listInFlight, totalBudget,
                 totalSpent, modalOpen, editing, formAmount, formCategory,
                 submitting, writeInFlight, lastDelete>>
  /\ UNCHANGED notForms

(**************************** Budgets page *********************************)
\* data.total_budget || 0 (likewise total_spent)
OrZero(present, value) == IF present THEN value ELSE 0

\* Budgets.fetchBudgets resolves with a response body
BudgetsFetchSucceeds(body) ==
  /\ formPage = "budgets"
  /\ listInFlight > 0
  /\ items' = (IF body.has THEN body.rows ELSE <<>>)
  /\ totalBudget' = OrZero(body.has, body.total_budget)
  /\ totalSpent' = OrZero(body.has, body.total_spent)
  /\ loading' = FALSE
  /\ listInFlight' = listInFlight - 1
  /\ UNCHANGED <<formPage, modalOpen, editing, formAmount, formCategory,
                 submitting, writeInFlight, toast>>
  /\ UNCHANGED <<deleteInFlight, lastDelete>>
  /\ UNCHANGED notForms

\* Budgets.fetchBudgets: the request fails
BudgetsFetchFails ==
  /\ formPage = "budgets"
  /\ listInFlight > 0
  /\ toast' = "Failed to load budgets"
  /\ loading' = FALSE
  /\ listInFlight' = listInFlight - 1
  /\ UNCHANGED <<formPage, items, totalBudget, totalSpent, modalOpen, editing,
                 formAmount, formCategory, submitting, writeInFlight>>
  /\ UNCHANGED <<deleteInFlight, lastDelete>>
  /\ UNCHANGED notForms

\* usedCategories of the Budgets page
usedCategories == {items[i].category : i \in 1..Len(items)}

\* availableCategories of the Budgets page, in CATEGORIES order
availableCategories ==
  SelectSeq(CATEGORIES,
            LAMBDA c : c \notin usedCategories \/ editing.category = c)

\* CATEGORIES.find(c => !usedCategories.includes(c.value))?.value || 'Food'
FirstFreeCategory ==
  LET free == SelectSeq(CATEGORIES, LAMBDA c : c \notin usedCategories)
  IN  IF Len(free) > 0 THEN free[1] ELSE "Food"

\* Budgets.openModal(budget); NoRow is the Add Budget button, disabled when
\* no category is available.  The Edit buttons belong to the grid, rendered
\* when not loading.
BudgetsOpenModal(budget) ==
  /\ formPage = "budgets"
  /\ ~modalOpen
  /\ budget # NoRow => (~loading /\ budget \in RowsOf(items))
  /\ budget = NoRow => Len(availableCategories) # 0
  /\ editing' = budget
  /\ formAmount' = (IF budget # NoRow THEN AmountToString(budget.amount)
                    ELSE <<>>)
  /\ formCategory' = (IF budget # NoRow THEN budget.category
                      ELSE FirstFreeCategory)
  /\ modalOpen' = TRUE
  /\ UNCHANGED <<formPage, items, loading, listInFlight, totalBudget,
                 totalSpent, submitting, writeInFlight, toast>>
  /\ UNCHANGED <<deleteInFlight, lastDelete>>
  /\ UNCHANGED notForms

\* Budgets.closeModal
BudgetsCloseModal ==
  /\ formPage = "budgets"
  /\ modalOpen
  /\ modalOpen' = FALSE
  /\ editing' = NoRow
  /\ UNCHANGED <<formPage, items, loading, listInFlight, totalBudget,
                 totalSpent, formAmount, formCategory, submitting,
                 writeInFlight, toast>>
  /\ UNCHANGED <<deleteInFlight, lastDelete>>
  /\ UNCHANGED notForms

\* onChange of the amount input of the budget form
BudgetsSetAmount(a) ==
  /\ formPage = "budgets"
  /\ modalOpen
  /\ formAmount' = a
  /\ UNCHANGED <<formPage, items, loading, listInFlight, totalBudget,
                 totalSpent, modalOpen, editing, formCategory, submitting,
                 writeInFlight, toast>>
  /\ UNCHANGED <<deleteInFlight, lastDelete>>
  /\ UNCHANGED notForms

\* onChange of the category select of the budget form: disabled in edit
\* mode, and it offers availableCategories
BudgetsSetCategory(c) ==
  /\ formPage = "budgets"
  /\ modalOpen
  /\ editing = NoRow
  /\ c \in RowsOf(availableCategories)
  /\ formCategory' = c
  /\ UNCHANGED <<formPage, items, loading, listInFlight, totalBudget,
                 totalSpent, modalOpen, editing, formAmount, submitting,
                 writeInFlight, toast>>
  /\ UNCHANGED <<deleteInFlight, lastDelete>>
  /\ UNCHANGED notForms

\* Budgets.handleSubmit with the form's category put into the update payload
BudgetsRequestWithCategory ==
  IF editing # NoRow
  THEN [op |-> "updateBudget", id |-> editing.id,
        amount |-> parseFloat(formAmount), category |-> formCategory,
        month |-> <<>>]
  ELSE [op |-> "createBudget", id |-> 0, amount |-> parseFloat(formAmount),
        category |-> formCategory, month |-> MountMonth]

\* Budgets.handleSubmit: the request it sends, api.updateBudget(id, payload)
\* or api.createBudget(payload); a field the payload lacks is "" or <<>>
BudgetsRequest ==
  IF editing # NoRow
  THEN [op |-> "updateBudget", id |-> editing.id,
        amount |-> parseFloat(formAmount), category |-> "", month |-> <<>>]
  ELSE [op |-> "createBudget", id |-> 0, amount |-> parseFloat(formAmount),
        category |-> formCategory, month |-> MountMonth]

\* Budgets.handleSubmit up to its await: validation, then the request
BudgetsHandleSubmit ==
  /\ formPage = "budgets"
  /\ modalOpen
  /\ ~submitting
  /\ IF formAmount = <<>> \/ LeqZero(parseFloat(formAmount))
     THEN /\ toast' = "Please enter a valid amount"
          /\ UNCHANGED <<submitting, writeInFlight>>
     ELSE /\ submitting' = TRUE
          /\ writeInFlight' = BudgetsRequest
          /\ UNCHANGED toast
  /\ UNCHANGED <<formPage, items, loading, listInFlight, totalBudget,
                 totalSpent, modalOpen, editing, formAmount, formCategory>>
  /\ UNCHANGED <<deleteInFlight, lastDelete>>
  /\ UNCHANGED notForms

\* Budgets.handleSubmit after its await resolved: toast, closeModal(),
\* fetchBudgets() up to its await, and the finally block
BudgetsWriteSucceeds ==
  /\ formPage = "budgets"
  /\ writeInFlight.op \in {"createBudget", "updateBudget"}
  /\ listInFlight < MaxInFlight
  /\ toast' = (IF writeInFlight.op = "updateBudget" THEN "Budget updated"
               ELSE "Budget created")
  /\ modalOpen' = FALSE
  /\ editing' = NoRow
  /\ loading' = TRUE
  /\ listInFlight' = listInFlight + 1
  /\ submitting' = FALSE
  /\ writeInFlight' = NoWrite
  /\ UNCHANGED <<formPage, items, totalBudget, totalSpent, formAmount,
                 formCategory>>
  /\ UNCHANGED <<deleteInFlight, lastDelete>>
  /\ UNCHANGED notForms

\* Budgets.handleSubmit with closeModal() and fetchBudgets() in the finally
\* block
BudgetsWriteFailsThenCloses(message) ==
  /\ formPage = "budgets"
  /\ writeInFlight.op \in {"createBudget", "updateBudget"}
  /\ listInFlight < MaxInFlight
  /\ toast' = MessageOr(message, "Failed to save budget")
  /\ modalOpen' = FALSE
  /\ editing' = NoRow
  /\ loading' = TRUE
  /\ listInFlight' = listInFlight + 1
  /\ submitting' = FALSE
  /\ writeInFlight' = NoWrite
  /\ UNCHANGED <<formPage, items, totalBudget, totalSpent, formAmount,
                 formCategory>>
  /\ UNCHANGED <<deleteInFlight, lastDelete>>
  /\ UNCHANGED notForms

\* Budgets.handleSubmit after its await rejected: catch and finally
BudgetsWriteFails(message) ==
  /\ formPage = "budgets"
  /\ writeInFlight.op \in {"createBudget", "updateBudget"}
  /\ toast' = MessageOr(message, "Failed to save budget")
  /\ submitting' = FALSE
  /\ writeInFlight' = NoWrite
  /\ UNCHANGED <<formPage, items, loading, listInFlight, totalBudget,
                 totalSpent, modalOpen, editing, formAmount, formCategory>>
  /\ UNCHANGED <<deleteInFlight, lastDelete>>
  /\ UNCHANGED notForms

\* Budgets.handleDelete(id) up to its await, with the answer to confirm()
BudgetsHandleDelete(id, confirmed) ==
  /\ formPage = "budgets"
  /\ ~modalOpen
  /\ ~loading
  /\ \E i \in 1..Len(items) : items[i].id = id
  /\ DeleteCount < MaxDeletes
  /\ lastDelete' = [id |-> id, confirmed |-> confirmed]
  /\ deleteInFlight' = (IF confirmed
                        THEN [deleteInFlight EXCEPT ![id] = @ + 1]
                        ELSE deleteInFlight)
  /\ UNCHANGED <<formPage, items, loading, listInFlight, totalBudget,
                 totalSpent, modalOpen, editing, formAmount, formCategory,
                 submitting, writeInFlight, toast>>
  /\ UNCHANGED notForms

\* Budgets.handleDelete after its await resolved: toast, fetchBudgets() up to
\* its await
BudgetsDeleteSucceeds(id) ==
  /\ formPage = "budgets"
  /\ deleteInFlight[id] > 0
  /\ listInFlight < MaxInFlight
  /\ deleteInFlight' = [deleteInFlight EXCEPT ![id] = @ - 1]
  /\ toast' = "Budget deleted"
  /\ loading' = TRUE
  /\ listInFlight' = listInFlight + 1
  /\ UNCHANGED <<formPage, items, totalBudget, totalSpent, modalOpen, editing,
                 formAmount, formCategory, submitting, writeInFlight,
                 lastDelete>>
  /\ UNCHANGED notForms

\* Budgets.handleDelete after its await rejected: catch
BudgetsDeleteFails(id) ==
  /\ formPage = "budgets"
  /\ deleteInFlight[id] > 0
  /\ deleteInFlight' = [deleteInFlight EXCEPT ![id] = @ - 1]
  /\ toast' = "Failed to delete budget"
  /\ UNCHANGED <<formPage, items, loading, listInFlight, totalBudget,
                 totalSpent, modalOpen, editing, formAmount, formCategory,
                 submitting, writeInFlight, lastDelete>>
  /\ UNCHANGED notForms

(***************************************************************************)
(* The Signup and Login pages                                              *)
(***************************************************************************)
NoCall == [fn |-> "none", email |-> "", password |-> "", fullName |-> ""]

NameInputs == {"", "Asha"}
EmailInputs == {"", "a@b.in"}
PasswordInputs == {"", "abcde", "abcdef", "uvwxyz", "abcdefg"}

\* nothing is mounted
AuthIdle ==
  /\ authPage = "none"
  /\ location = ""
  /\ fullName = ""
  /\ email = ""
  /\ password = ""
  /\ confirmPassword = ""
  /\ authLoading = FALSE
  /\ authCall = NoCall
  /\ authToast = "none"

\* useState initial values of Signup / Login, mounted at its route
InitAuth ==
  /\ authPage \in {"signup", "login"}
  /\ location = (IF authPage = "signup" THEN "/signup" ELSE "/login")
  /\ fullName = ""
  /\ email = ""
  /\ password = ""
  /\ confirmPassword = ""
  /\ authLoading = FALSE
  /\ authCall = NoCall
  /\ authToast = "none"

\* password.length < 5 in place of password.length < 6
PasswordTooShortBy5(pw) == Len(pw) < 5

\* Signup.handleSubmit: password.length < 6
PasswordTooShort(pw) == Len(pw) < 6

\* onChange of the Signup inputs, disabled while loading
SignupSetField(field, value) ==
  /\ authPage = "signup"
  /\ location = "/signup"
  /\ ~authLoading
  /\ fullName' = (IF field = "fullName" THEN value ELSE fullName)
  /\ email' = (IF field = "email" THEN value ELSE email)
  /\ password' = (IF field = "password" THEN value ELSE password)
  /\ confirmPassword' =
       (IF field = "confirmPassword" THEN value ELSE confirmPassword)
  /\ UNCHANGED <<authPage, location, authLoading, authCall, authToast>>
  /\ UNCHANGED notAuth

\* Signup.handleSubmit up to its await; the button is disabled while loading
SignupHandleSubmit ==
  /\ authPage = "signup"
  /\ location = "/signup"
  /\ ~authLoading
  /\ IF email = "" \/ password = "" \/ fullName = ""
     THEN /\ authToast' = "Please fill in all fields"
          /\ UNCHANGED <<authLoading, authCall>>
     ELSE IF password # confirmPassword
     THEN /\ authToast' = "Passwords do not match"
          /\ UNCHANGED <<authLoading, authCall>>
     ELSE IF PasswordTooShort(password)
     THEN /\ authToast' = "Password must be at least 6 characters"
          /\ UNCHANGED <<authLoading, authCall>>
     ELSE /\ authLoading' = TRUE
          /\ authCall' = [fn |-> "signUp", email |-> email,
                          password |-> password, fullName |-> fullName]
          /\ UNCHANGED authToast
  /\ UNCHANGED <<authPage, location, fullName, email, password,
                 confirmPassword>>
  /\ UNCHANGED notAuth

\* Signup.handleSubmit after signUp resolved: toast, navigate, finally
SignupSucceeds ==
  /\ authPage = "signup"
  /\ authCall.fn = "signUp"
  /\ authToast' = "Account created! Please check your email to verify."
  /\ location' = "/dashboard"
  /\ authLoading' = FALSE
  /\ authCall' = NoCall
  /\ UNCHANGED <<authPage, fullName, email, password, confirmPassword>>
  /\ UNCHANGED notAuth

\* Signup.handleSubmit after signUp rejected: catch and finally
SignupFails(message) ==
  /\ authPage = "signup"
  /\ authCall.fn = "signUp"
  /\ authToast' = MessageOr(message, "Failed to create account")
  /\ authLoading' = FALSE
  /\ authCall' = NoCall
  /\ UNCHANGED <<authPage, location, fullName, email, password,
                 confirmPassword>>
  /\ UNCHANGED notAuth

\* onChange of the Login inputs, disabled while loading
LoginSetField(field, value) ==
  /\ authPage = "login"
  /\ location = "/login"
  /\ ~authLoading
  /\ email' = (IF field = "email" THEN value ELSE email)
  /\ password' = (IF field = "password" THEN value ELSE password)
  /\ UNCHANGED <<authPage, location, fullName, confirmPassword, authLoading,
                 authCall, authToast>>
  /\ UNCHANGED notAuth

\* Login.handleSubmit up to its await; the button is disabled while loading
LoginHandleSubmit ==
  /\ authPage = "login"
  /\ location = "/login"
  /\ ~authLoading
  /\ IF email = "" \/ password = ""
     THEN /\ authToast' = "Please fill in all fields"
          /\ UNCHANGED <<authLoading, authCall>>
     ELSE /\ authLoading' = TRUE
          /\ authCall' = [fn |-> "signIn", email |-> email,
                          password |-> password, fullName |-> ""]
          /\ UNCHANGED authToast
  /\ UNCHANGED <<authPage, location, fullName, email, password,
                 confirmPassword>>
  /\ UNCHANGED notAuth

\* Login.handleSubmit after signIn resolved: toast, navigate, finally
LoginSucceeds ==
  /\ authPage = "login"
  /\ authCall.fn = "signIn"
  /\ authToast' = "Welcome back!"
  /\ location' = "/dashboard"
  /\ authLoading' = FALSE
  /\ authCall' = NoCall
  /\ UNCHANGED <<authPage, fullName, email, password, confirmPassword>>
  /\ UNCHANGED notAuth

\* Login.handleSubmit after signIn rejected: catch and finally
LoginFails(message) ==
  /\ authPage = "login"
  /\ authCall.fn = "signIn"
  /\ authToast' = MessageOr(message, "Failed to sign in")
  /\ authLoading' = FALSE
  /\ authCall' = NoCall
  /\ UNCHANGED <<authPage, location, fullName, email, password,
                 confirmPassword>>
  /\ UNCHANGED notAuth

(***************************************************************************)
(* JavaScript numbers: a rational num/den (den > 0), NaN, +-Infinity, or   *)
(* undefined for a field the object lacks                                  *)
(***************************************************************************)
JsNum(n, d) == [kind |-> "num", num |-> n, den |-> d]
JsNaN == [kind |-> "nan", num |-> 0, den |-> 1]
JsInf(sign) == [kind |-> "inf", num |-> sign, den |-> 1]
JsUndefined == [kind |-> "undefined", num |-> 0, den |-> 1]

\* x > k for an integer k (false for NaN and undefined)
JsGt(x, k) ==
  \/ x.kind = "num" /\ x.num > k * x.den
  \/ x.kind = "inf" /\ x.num > 0

\* x >= k for an integer k (false for NaN and undefined)
JsGe(x, k) ==
  \/ x.kind = "num" /\ x.num >= k * x.den
  \/ x.kind = "inf" /\ x.num > 0

Sign(n) == IF n > 0 THEN 1 ELSE IF n < 0 THEN -1 ELSE 0

\* x / y
JsDiv(x, y) ==
  IF x.kind \in {"nan", "undefined"} \/ y.kind \in {"nan", "undefined"}
  THEN JsNaN
  ELSE IF x.kind = "inf"
  THEN (IF y.kind = "inf" THEN JsNaN
        ELSE JsInf(IF y.num < 0 THEN 0 - x.num ELSE x.num))
  ELSE IF y.kind = "inf" THEN JsNum(0, 1)
  ELSE IF y.num = 0
  THEN (IF x.num = 0 THEN JsNaN ELSE JsInf(Sign(x.num)))
  ELSE JsNum(x.num * y.den * Sign(y.num),
             x.den * y.num * Sign(y.num))

\* x * k for a positive integer k
JsTimes(x, k) == IF x.kind = "num" THEN JsNum(x.num * k, x.den) ELSE x

\* x.toFixed(0) for a finite x >= 0: the nearest integer, the larger one on
\* a tie, as decimal digits
toFixed0(x) == NatToStr((2 * x.num + x.den) \div (2 * x.den))

(***************************************************************************)
(* Rendering of budget status and of the percentage used                   *)
(***************************************************************************)
NotRendered == [done |-> FALSE]

\* percentage_used as the server computes it for a budget: spent / amount
\* x 100 (amount > 0)
PercentageUsed(spent, amount) == JsNum(spent * 100, amount)

\* a budget of the Budgets page list, with the fields the server derives
BudgetView(category, spent, amount) ==
  [category |-> category, spent |-> spent, amount |-> amount,
   percentage_used |-> PercentageUsed(spent, amount)]

\* Budgets.getBudgetStatus with > 100 in place of >= 100
getBudgetStatusStrict(budget) ==
  IF JsGt(budget.percentage_used, 100) THEN "exceeded"
  ELSE IF JsGe(budget.percentage_used, 80) THEN "warning"
  ELSE "ok"

\* Budgets.getBudgetStatus
getBudgetStatus(budget) ==
  IF JsGe(budget.percentage_used, 100) THEN "exceeded"
  ELSE IF JsGe(budget.percentage_used, 80) THEN "warning"
  ELSE "ok"

\* Dashboard.budgetPercentage without the test of the total budget
budgetPercentageUnguarded(data) ==
  IF data.isNull THEN JsNaN
  ELSE JsTimes(JsDiv(data.total_spent_this_month,
                     data.total_budget_this_month), 100)

\* Dashboard.budgetPercentage; data?.total_budget_this_month is undefined
\* for a null data
budgetPercentage(data) ==
  IF ~data.isNull /\ JsGt(data.total_budget_this_month, 0)
  THEN JsTimes(JsDiv(data.total_spent_this_month,
                     data.total_budget_this_month), 100)
  ELSE JsNum(0, 1)

\* the "% used" text of the Budgets summary card, before the "% used" suffix
BudgetsPercentText(tBudget, tSpent) ==
  IF tBudget > 0
  THEN toFixed0(JsTimes(JsDiv(JsNum(tSpent, 1), JsNum(tBudget, 1)), 100))
  ELSE NumToStr(0)

\* x || k for an integer k: k when x is NaN, 0 or undefined
JsOr(x, k) ==
  IF x.kind \in {"nan", "undefined"} \/ (x.kind = "num" /\ x.num = 0)
  THEN JsNum(k, 1)
  ELSE x

\* Math.min(x, k) for an integer k
JsMin(x, k) ==
  IF x.kind \in {"nan", "undefined"} THEN JsNaN
  ELSE IF x.kind = "inf" THEN (IF x.num > 0 THEN JsNum(k, 1) ELSE x)
  ELSE IF x.num > k * x.den THEN JsNum(k, 1)
  ELSE x

\* the class of the Dashboard's Budget Used indicator and bar
DashboardIndicatorStyle(pct) ==
  IF JsGt(pct, 100) THEN "danger"
  ELSE IF JsGt(pct, 80) THEN "warning"
  ELSE "success"

\* the class of the summary bar of the Budgets page; totalBudget * 0.8 is
\* taken exactly, as it is in floating point for the totals sampled here
BudgetsSummaryStyle(tBudget, tSpent) ==
  IF tSpent > tBudget THEN "danger"
  ELSE IF 10 * tSpent > 8 * tBudget THEN "warning"
  ELSE "success"

\* the width of the summary bar of the Budgets page, in percent
BudgetsBarWidth(tBudget, tSpent) ==
  JsMin(JsOr(JsTimes(JsDiv(JsNum(tSpent, 1), JsNum(tBudget, 1)), 100), 0),
        100)

SpentSamples == {0, 400, 499, 500, 800, 959, 960, 1000, 1199, 1200, 1300}
AmountSamples == {500, 1200}
TotalSamples == {0, 400, 500, 800, 1000, 1200}

\* one or two budget cards
CardInputs ==
  { [budgets |-> <<BudgetView("Food", s, a)>>] :
      s \in SpentSamples, a \in AmountSamples } \cup
  { [budgets |-> <<BudgetView("Food", s1, 1200),
                   BudgetView("Transport", s2, 500)>>] :
      s1 \in SpentSamples, s2 \in SpentSamples }

JsFieldSamples == {JsUndefined} \cup {JsNum(t, 1) : t \in TotalSamples}

\* the Dashboard's data state: null before the first load, then the body
DashboardInputs ==
  { [isNull |-> TRUE, total_budget_this_month |-> JsUndefined,
     total_spent_this_month |-> JsUndefined] } \cup
  { [isNull |-> FALSE, total_budget_this_month |-> b,
     total_spent_this_month |-> sp] :
      b \in JsFieldSamples, sp \in JsFieldSamples }

\* the Budgets page's totalBudget and totalSpent states
SummaryInputs ==
  { [totalBudget |-> b, totalSpent |-> sp] :
      b \in TotalSamples, sp \in TotalSamples }

RenderIdle ==
  /\ view = "none"
  /\ renderIn = NotRendered
  /\ renderOut = NotRendered

InitRender ==
  /\ view \in {"budgetCards", "dashboard", "budgetsSummary"}
  /\ renderIn \in (CASE view = "budgetCards" -> CardInputs
                     [] view = "dashboard" -> DashboardInputs
                     [] view = "budgetsSummary" -> SummaryInputs)
  /\ renderOut = NotRendered

\* the budget cards of the Budgets page: status and "% used" text of each
RenderBudgetCards ==
  /\ view = "budgetCards"
  /\ renderOut = NotRendered
  /\ renderOut' =
       [done |-> TRUE,
        status |-> [i \in 1..Len(renderIn.budgets) |->
                      getBudgetStatus(renderIn.budgets[i])],
        text |-> [i \in 1..Len(renderIn.budgets) |->
                    toFixed0(renderIn.budgets[i].percentage_used)]]
  /\ UNCHANGED <<view, renderIn>>
  /\ UNCHANGED notRender

\* the Dashboard's budget-used percentage
RenderDashboard ==
  /\ view = "dashboard"
  /\ renderOut = NotRendered
  /\ renderOut' =
       [done |-> TRUE,
        budgetPercentage |-> budgetPercentage(renderIn),
        style |-> DashboardIndicatorStyle(budgetPercentage(renderIn))]
  /\ UNCHANGED <<view, renderIn>>
  /\ UNCHANGED notRender

\* the summary card of the Budgets page
RenderBudgetsSummary ==
  /\ view = "budgetsSummary"
  /\ renderOut = NotRendered
  /\ renderOut' =
       [done |-> TRUE,
        text |-> BudgetsPercentText(renderIn.totalBudget, renderIn.totalSpent),
        style |-> BudgetsSummaryStyle(renderIn.totalBudget,
                                      renderIn.totalSpent),
        width |-> BudgetsBarWidth(renderIn.totalBudget, renderIn.totalSpent)]
  /\ UNCHANGED <<view, renderIn>>
  /\ UNCHANGED notRender

(***************************************************************************)
(* The expenses and budgets tables: constraints and row level security.    *)
(* A statement is issued by an authenticated user uid (auth.uid()); the    *)
(* two tables share no constraint, so one table is followed at a time.     *)
(***************************************************************************)
Users == {"A", "B"}
Ids == 1..MaxId
DbCategories == {"Food", "Transport"}
DbMonths == {"2024-12"}

\* amounts a statement may carry, in thousandths
StmtAmounts == {-1000, 4, 5, 1000}

\* DECIMAL(12, 2): a value in thousandths rounded to hundredths, ties away
\* from zero
Round2(t) == IF t >= 0 THEN (t + 5) \div 10 ELSE 0 - ((5 - t) \div 10)

\* CHECK (amount >= 0) in place of CHECK (amount > 0)
AmountCheckNonNegative(amount) == amount >= 0

\* CHECK (amount > 0), on the stored value
AmountCheck(amount) == amount > 0

\* no policy: every row passes
OwnRowAlways(uid, row) == TRUE

\* the policies' expression auth.uid() = user_id
OwnRow(uid, row) == uid = row.user_id

\* no UNIQUE constraint
UniqueBudgetNone(table) == TRUE

\* UNIQUE(user_id, category, month) of budgets
UniqueBudget(table) ==
  \A r1 \in table, r2 \in table :
    (r1.user_id = r2.user_id /\ r1.category = r2.category /\
     r1.month = r2.month) => r1 = r2

\* PRIMARY KEY (id)
PrimaryKey(table) == \A r1 \in table, r2 \in table : r1.id = r2.id => r1 = r2

\* the first constraint a table that results from a statement violates
ConstraintError(table) ==
  IF \E r \in table : ~AmountCheck(r.amount) THEN "check"
  ELSE IF ~PrimaryKey(table) THEN "pkey"
  ELSE IF dbTable = "budgets" /\ ~UniqueBudget(table) THEN "unique"
  ELSE "none"

\* the rows a statement's WHERE clause selects: id = target, or all rows
\* when there is no WHERE clause (target 0)
Matching(target) == {r \in rows : target = 0 \/ r.id = target}

\* rows a statement may insert or SET; expenses have no month column
StmtRows ==
  [id : Ids, user_id : Users, category : DbCategories, amount : StmtAmounts,
   month : IF dbTable = "budgets" THEN DbMonths ELSE {""}]

\* the row as stored: the amount coerced to DECIMAL(12, 2)
Stored(new) == [new EXCEPT !.amount = Round2(new.amount)]

NoStmt == [by |-> "", op |-> "none", error |-> "none", seen |-> {}]

DbIdle ==
  /\ dbTable = "none"
  /\ rows = {}
  /\ lastStmt = NoStmt

\* the tables as schema.sql creates them
InitDb ==
  /\ dbTable \in {"expenses", "budgets"}
  /\ rows = {}
  /\ lastStmt = NoStmt

\* SELECT ... [WHERE id = target]: the SELECT policy filters the rows
DbSelect(uid, target) ==
  /\ dbTable # "none"
  /\ lastStmt' = [by |-> uid, op |-> "select", error |-> "none",
                  seen |-> {r \in Matching(target) : OwnRow(uid, r)}]
  /\ UNCHANGED <<dbTable, rows>>
  /\ UNCHANGED notDb

\* INSERT ... RETURNING *; new.id is the id given, or the one that
\* uuid_generate_v4() produced (then it is an unused one)
DbInsert(uid, new) ==
  /\ dbTable # "none"
  /\ LET row == Stored(new)
         error == IF ~OwnRow(uid, row) THEN "rls"
                  ELSE ConstraintError(rows \cup {row})
         duplicate == row \in rows
     IN  IF error = "none" /\ ~duplicate
         THEN /\ rows' = rows \cup {row}
              /\ lastStmt' = [by |-> uid, op |-> "insert", error |-> "none",
                              seen |-> {row}]
         ELSE /\ rows' = rows
              /\ lastStmt' = [by |-> uid, op |-> "insert",
                              error |-> IF error = "none" THEN "pkey"
                                        ELSE error,
                              seen |-> {}]
  /\ UNCHANGED dbTable
  /\ UNCHANGED notDb

\* UPDATE ... SET cols [WHERE id = target] RETURNING *; set.cols names the
\* columns assigned.  The UPDATE policy's USING filters the rows; it has no
\* WITH CHECK, so USING is applied to the new rows as well.
DbUpdate(uid, target, set) ==
  /\ dbTable # "none"
  /\ LET old == {r \in Matching(target) : OwnRow(uid, r)}
         Assign(r) ==
           [id |-> IF "id" \in set.cols THEN set.row.id ELSE r.id,
            user_id |-> IF "user_id" \in set.cols THEN set.row.user_id
                        ELSE r.user_id,
            category |-> IF "category" \in set.cols THEN set.row.category
                         ELSE r.category,
            amount |-> IF "amount" \in set.cols THEN Round2(set.row.amount)
                       ELSE r.amount,
            month |-> IF "month" \in set.cols THEN set.row.month
                      ELSE r.month]
         new == {Assign(r) : r \in old}
         table == (rows \ old) \cup new
         error == IF \E r \in new : ~OwnRow(uid, r) THEN "rls"
                  ELSE IF Cardinality(table) # Cardinality(rows) THEN "pkey"
                  ELSE ConstraintError(table)
     IN  IF error = "none"
         THEN /\ rows' = table
              /\ lastStmt' = [by |-> uid, op |-> "update", error |-> "none",
                              seen |-> new]
         ELSE /\ rows' = rows
              /\ lastStmt' = [by |-> uid, op |-> "update", error |-> error,
                              seen |-> {}]
  /\ UNCHANGED dbTable
  /\ UNCHANGED notDb

\* DELETE ... [WHERE id = target] RETURNING *
DbDelete(uid, target) ==
  /\ dbTable # "none"
  /\ LET old == {r \in Matching(target) : OwnRow(uid, r)}
     IN  /\ rows' = rows \ old
         /\ lastStmt' = [by |-> uid, op |-> "delete", error |-> "none",
                         seen |-> old]
  /\ UNCHANGED dbTable
  /\ UNCHANGED notDb

\* the SET lists of the UPDATE statements followed: the columns assigned and
\* their values (the other fields of row are not read)
SetLists ==
  LET Base == [id |-> 1, user_id |-> "A", category |-> "Food",
               amount |-> 1000, month |-> IF dbTable = "budgets"
                                          THEN "2024-12" ELSE ""]
  IN  {[cols |-> {"amount"}, row |-> [Base EXCEPT !.amount = a]] :
         a \in StmtAmounts} \cup
      {[cols |-> {"category"}, row |-> [Base EXCEPT !.category = c]] :
         c \in DbCategories} \cup
      {[cols |-> {"user_id"}, row |-> [Base EXCEPT !.user_id = u]] :
         u \in Users} \cup
      {[cols |-> {"id"}, row |-> [Base EXCEPT !.id = i]] : i \in Ids}

(***************************************************************************)
(* The API client and the AuthProvider that sets its token                 *)
(***************************************************************************)
\* JavaScript null, where a string is expected
Null == "null"

NullSession == [isNull |-> TRUE, user |-> Null, access_token |-> Null]

\* what supabase may hand over: no session, or a session of a user with its
\* access token
Sessions ==
  { NullSession,
    [isNull |-> FALSE, user |-> "u1", access_token |-> "t1"],
    [isNull |-> FALSE, user |-> "u1", access_token |-> "t2"],
    [isNull |-> FALSE, user |-> "u2", access_token |-> "t3"] }

\* truthiness of a string-or-null value
Truthy(v) == v # Null /\ v # ""

\* options.headers of a request: with or without an Authorization entry
RequestOptions ==
  { [hasAuthorization |-> FALSE, authorization |-> ""],
    [hasAuthorization |-> TRUE, authorization |-> "Basic abc"] }

\* the headers' Authorization entry when options.headers is spread last
RequestAuthorizationOptionsWin(token, options) ==
  IF options.hasAuthorization
  THEN [has |-> TRUE, value |-> options.authorization, added |-> FALSE]
  ELSE IF Truthy(token)
  THEN [has |-> TRUE, value |-> "Bearer " \o token, added |-> TRUE]
  ELSE [has |-> FALSE, value |-> "", added |-> FALSE]

\* ApiClient.request: the Authorization entry of the headers sent
RequestAuthorization(token, options) ==
  IF Truthy(token)
  THEN [has |-> TRUE, value |-> "Bearer " \o token, added |-> TRUE]
  ELSE [has |-> options.hasAuthorization,
        value |-> IF options.hasAuthorization THEN options.authorization
                  ELSE "",
        added |-> FALSE]

\* response bodies: text that is not JSON (the empty body included), or a
\* JSON value: null, a string, or an object with or without a detail field
NotJson == [json |-> FALSE, type |-> "none", hasDetail |-> FALSE, detail |-> ""]
JsonNull == [json |-> TRUE, type |-> "null", hasDetail |-> FALSE, detail |-> ""]
JsonString == [json |-> TRUE, type |-> "string", hasDetail |-> FALSE, detail |-> ""]
JsonObject(hasDetail, detail) ==
  [json |-> TRUE, type |-> "object", hasDetail |-> hasDetail, detail |-> detail]

Bodies ==
  { NotJson, JsonNull, JsonString, JsonObject(FALSE, ""), JsonObject(TRUE, ""),
    JsonObject(TRUE, "Budget already exists") }

Statuses == {200, 201, 204, 400, 404, 500}

\* what fetch() settles with: a rejection, or a response
Responses ==
  { [received |-> FALSE, status |-> 0, body |-> NotJson] } \cup
  { [received |-> TRUE, status |-> st, body |-> b] :
      st \in Statuses, b \in Bodies }

\* response.ok
Ok(status) == status >= 200 /\ status <= 299

Throw(name, text, status) ==
  [kind |-> "throw", error |-> name, message |-> text, status |-> status,
   value |-> NotJson]

Return(isNull, body) ==
  [kind |-> "return", error |-> "", message |-> "", status |-> 0,
   value |-> IF isNull THEN JsonNull ELSE body]

\* ApiClient.request from the settled fetch on; the message `HTTP ${status}`
\* is the text "HTTP " with the status beside it
RequestOutcome(response) ==
  IF ~response.received THEN Throw("TypeError", "Failed to fetch", 0)
  ELSE IF ~Ok(response.status)
  THEN (IF ~response.body.json THEN Throw("Error", "Request failed", 0)
        ELSE IF response.body.type = "null"
        THEN Throw("TypeError", "Cannot read properties of null", 0)
        ELSE IF response.body.type = "object" /\ response.body.hasDetail /\
                Truthy(response.body.detail)
        THEN Throw("Error", response.body.detail, 0)
        ELSE Throw("Error", "HTTP ", response.status))
  ELSE IF response.status = 204 THEN Return(TRUE, NotJson)
  ELSE IF response.body.json THEN Return(FALSE, response.body)
  ELSE Throw("SyntaxError", "Unexpected end of JSON input", 0)

NoRequest ==
  [sent |-> FALSE, token |-> Null, lastSet |-> Null,
   options |-> [hasAuthorization |-> FALSE, authorization |-> ""],
   authorization |-> [has |-> FALSE, value |-> "", added |-> FALSE],
   response |-> [received |-> FALSE, status |-> 0, body |-> NotJson]]

NoOutcome ==
  [kind |-> "none", error |-> "", message |-> "", status |-> 0,
   value |-> NotJson]

\* what a route element renders: the spinner, a <Navigate>, or a page
Spinner == [kind |-> "spinner", to |-> "", page |-> ""]
Navigate(to) == [kind |-> "navigate", to |-> to, page |-> ""]
Page(page) == [kind |-> "page", to |-> "", page |-> page]
NoElement == [kind |-> "none", to |-> "", page |-> ""]

\* ProtectedRoute without the isAuthenticated test
ProtectedRouteOpen(page, isLoading, isAuthenticated) ==
  IF isLoading THEN Spinner ELSE Page(page)

\* App.ProtectedRoute around a page
ProtectedRoute(page, isLoading, isAuthenticated) ==
  IF isLoading THEN Spinner
  ELSE IF ~isAuthenticated THEN Navigate("/login")
  ELSE Page(page)

\* PublicRoute without the isAuthenticated test
PublicRouteOpen(page, isLoading, isAuthenticated) ==
  IF isLoading THEN Spinner ELSE Page(page)

\* App.PublicRoute around a page
PublicRoute(page, isLoading, isAuthenticated) ==
  IF isLoading THEN Spinner
  ELSE IF isAuthenticated THEN Navigate("/dashboard")
  ELSE Page(page)

\* locations the router may be sent to; "/reports" stands for any path
\* without a route of its own
Paths ==
  {"/login", "/signup", "/dashboard", "/expenses", "/budgets", "/", "/reports"}

\* AppRoutes with the default redirects pointing at "/"
AppRoutesToRoot(path, isLoading, isAuthenticated) ==
  CASE path = "/login" -> PublicRoute("Login", isLoading, isAuthenticated)
    [] path = "/signup" -> PublicRoute("Signup", isLoading, isAuthenticated)
    [] path = "/dashboard" ->
         ProtectedRoute("Dashboard", isLoading, isAuthenticated)
    [] path = "/expenses" ->
         ProtectedRoute("Expenses", isLoading, isAuthenticated)
    [] path = "/budgets" -> ProtectedRoute("Budgets", isLoading, isAuthenticated)
    [] OTHER -> Navigate("/")

\* App.AppRoutes: the element of the route that matches the path
AppRoutes(path, isLoading, isAuthenticated) ==
  CASE path = "/login" -> PublicRoute("Login", isLoading, isAuthenticated)
    [] path = "/signup" -> PublicRoute("Signup", isLoading, isAuthenticated)
    [] path = "/dashboard" ->
         ProtectedRoute("Dashboard", isLoading, isAuthenticated)
    [] path = "/expenses" ->
         ProtectedRoute("Expenses", isLoading, isAuthenticated)
    [] path = "/budgets" -> ProtectedRoute("Budgets", isLoading, isAuthenticated)
    [] OTHER -> Navigate("/dashboard")

\* the location and element once every <Navigate> has taken effect; a
\* <Navigate> renders nothing, and no chain is longer than two
RouteSettled(path, isLoading, isAuthenticated) ==
  LET e1 == AppRoutes(path, isLoading, isAuthenticated)
      p2 == IF e1.kind = "navigate" THEN e1.to ELSE path
      e2 == AppRoutes(p2, isLoading, isAuthenticated)
      p3 == IF e2.kind = "navigate" THEN e2.to ELSE p2
  IN  [path |-> p3, shown |-> AppRoutes(p3, isLoading, isAuthenticated)]

ApiIdle ==
  /\ apiToken = Null
  /\ lastSetToken = Null
  /\ session = NullSession
  /\ user = Null
  /\ providerLoading = FALSE
  /\ sessionPending = FALSE
  /\ routePath = ""
  /\ routeShown = NoElement
  /\ lastVisit = ""
  /\ lastRequest = NoRequest
  /\ lastOutcome = NoOutcome

\* new ApiClient(), and AuthProvider after its first render and effect, the
\* app opened at any path
InitApi ==
  /\ apiToken = Null
  /\ lastSetToken = Null
  /\ session = NullSession
  /\ user = Null
  /\ providerLoading = TRUE
  /\ sessionPending = TRUE
  /\ \E path \in Paths :
       /\ routePath = RouteSettled(path, TRUE, FALSE).path
       /\ routeShown = RouteSettled(path, TRUE, FALSE).shown
       /\ lastVisit = path
  /\ lastRequest = NoRequest
  /\ lastOutcome = NoOutcome

\* the then-callback of supabase.auth.getSession()
GetSessionResolves(sess) ==
  /\ sessionPending
  /\ session' = sess
  /\ user' = sess.user
  /\ IF Truthy(sess.access_token)
     THEN apiToken' = sess.access_token /\ lastSetToken' = sess.access_token
     ELSE UNCHANGED <<apiToken, lastSetToken>>
  /\ providerLoading' = FALSE
  /\ sessionPending' = FALSE
  /\ routePath' = RouteSettled(routePath, FALSE, Truthy(sess.user)).path
  /\ routeShown' = RouteSettled(routePath, FALSE, Truthy(sess.user)).shown
  /\ UNCHANGED <<lastVisit, lastRequest, lastOutcome>>
  /\ UNCHANGED notApi

\* the onAuthStateChange callback without its else branch
OnAuthStateChangeKeepsToken(sess) ==
  /\ providerLoading \in BOOLEAN
  /\ session' = sess
  /\ user' = sess.user
  /\ IF Truthy(sess.access_token)
     THEN apiToken' = sess.access_token /\ lastSetToken' = sess.access_token
     ELSE UNCHANGED <<apiToken, lastSetToken>>
  /\ providerLoading' = FALSE
  /\ routePath' = RouteSettled(routePath, FALSE, Truthy(sess.user)).path
  /\ routeShown' = RouteSettled(routePath, FALSE, Truthy(sess.user)).shown
  /\ UNCHANGED <<sessionPending, lastVisit, lastRequest, lastOutcome>>
  /\ UNCHANGED notApi

\* the onAuthStateChange callback
OnAuthStateChange(sess) ==
  /\ providerLoading \in BOOLEAN
  /\ session' = sess
  /\ user' = sess.user
  /\ IF Truthy(sess.access_token)
     THEN apiToken' = sess.access_token /\ lastSetToken' = sess.access_token
     ELSE apiToken' = Null /\ lastSetToken' = Null
  /\ providerLoading' = FALSE
  /\ routePath' = RouteSettled(routePath, FALSE, Truthy(sess.user)).path
  /\ routeShown' = RouteSettled(routePath, FALSE, Truthy(sess.user)).shown
  /\ UNCHANGED <<sessionPending, lastVisit, lastRequest, lastOutcome>>
  /\ UNCHANGED notApi

\* ApiClient.request: the request sent and the way the call ends
ApiRequest(options, response) ==
  /\ providerLoading \in BOOLEAN
  /\ lastRequest' =
       [sent |-> TRUE, token |-> apiToken, lastSet |-> lastSetToken,
        options |-> options,
        authorization |-> RequestAuthorization(apiToken, options),
        response |-> response]
  /\ lastOutcome' = RequestOutcome(response)
  /\ UNCHANGED <<apiToken, lastSetToken, session, user, providerLoading,
                 sessionPending, routePath, routeShown, lastVisit>>
  /\ UNCHANGED notApi

\* the router's location changes to path: a link, a navigate() call, or the
\* browser's back and forward buttons
Visit(path) ==
  /\ routePath' = RouteSettled(path, providerLoading, Truthy(user)).path
  /\ routeShown' = RouteSettled(path, providerLoading, Truthy(user)).shown
  /\ lastVisit' = path
  /\ UNCHANGED <<apiToken, lastSetToken, session, user, providerLoading,
                 sessionPending, lastRequest, lastOutcome>>
  /\ UNCHANGED notApi

(***************************************************************************)
(* The Dashboard page: fetchDashboard and the month buttons                *)
(***************************************************************************)
\* calls of fetchDashboard explored
MaxFetch == 3

\* what api.getDashboard(month) may resolve with: null (an empty answer), or
\* the month's figures
DashboardBodies(tok) ==
  { [isNull |-> TRUE, month |-> <<>>, total_spent_this_month |-> 0] } \cup
  { [isNull |-> FALSE, month |-> tok, total_spent_this_month |-> t] :
      t \in {0, 600} }

NullData == [isNull |-> TRUE, month |-> <<>>, total_spent_this_month |-> 0]

\* what api.getAlerts() may resolve with: null, an object without alerts, or
\* an object with a list of alerts
AlertsBodies ==
  { [isNull |-> TRUE, has |-> FALSE, alerts |-> <<>>],
    [isNull |-> FALSE, has |-> FALSE, alerts |-> <<>>],
    [isNull |-> FALSE, has |-> TRUE, alerts |-> <<>>],
    [isNull |-> FALSE, has |-> TRUE, alerts |-> <<"Food: exceeded">>] }

\* a request of Promise.all: not issued, pending, or resolved with a value
NoCallYet == [state |-> "none", value |-> NullData]
Pending == [state |-> "pending", value |-> NullData]
Resolved(value) == [state |-> "resolved", value |-> value]

NoFetch == [month |-> <<>>, getDashboard |-> NoCallYet, getAlerts |-> NoCallYet]

\* fetchDashboard up to its await, for the month of the render it was made in
FetchStarted(tok) ==
  [month |-> tok, getDashboard |-> Pending, getAlerts |-> Pending]

\* the page is not mounted
DashIdle ==
  /\ dashMonth = <<>>
  /\ dashData = NullData
  /\ dashAlerts = <<>>
  /\ dashLoading = FALSE
  /\ dashFetch = NoFetch
  /\ dashFetches = 0
  /\ dashToast = "none"
  /\ dashOutcome = "none"

\* the state after the first render and its effect
InitDash ==
  /\ dashMonth = MountMonth
  /\ dashData = NullData
  /\ dashAlerts = <<>>
  /\ dashLoading = TRUE
  /\ dashFetch = FetchStarted(MountMonth)
  /\ dashFetches = 1
  /\ dashToast = "none"
  /\ dashOutcome = "none"

\* fetchDashboard with setData and setAlerts run whatever Promise.all gave
FetchRejectedKeepsPartial(which) ==
  /\ dashData' = (IF dashFetch.getDashboard.state = "resolved"
                  THEN dashFetch.getDashboard.value ELSE dashData)
  /\ dashAlerts' = (IF dashFetch.getAlerts.state = "resolved"
                    THEN dashFetch.getAlerts.value.alerts ELSE dashAlerts)
  /\ dashToast' = "Failed to load dashboard"
  /\ dashOutcome' = "failed"
  /\ dashLoading' = FALSE
  /\ dashFetch' = NoFetch

\* fetchDashboard after Promise.all rejected: catch and finally.  The other
\* request is left to itself; whatever it gives is dropped.
FetchRejected(which) ==
  /\ dashToast' = "Failed to load dashboard"
  /\ dashOutcome' = "failed"
  /\ dashLoading' = FALSE
  /\ dashFetch' = NoFetch
  /\ UNCHANGED <<dashData, dashAlerts>>

\* fetchDashboard after Promise.all resolved: setData, setAlerts, finally;
\* alertsData.alerts of a null alertsData throws into the catch block
FetchResolved(dashboardData, alertsData) ==
  /\ dashData' = dashboardData
  /\ IF alertsData.isNull
     THEN /\ dashToast' = "Failed to load dashboard"
          /\ dashOutcome' = "failed"
          /\ UNCHANGED dashAlerts
     ELSE /\ dashAlerts' = (IF alertsData.has THEN alertsData.alerts ELSE <<>>)
          /\ dashOutcome' = "succeeded"
          /\ UNCHANGED dashToast
  /\ dashLoading' = FALSE
  /\ dashFetch' = NoFetch

\* api.getDashboard(month) resolves
GetDashboardResolves(body) ==
  /\ dashFetch.getDashboard.state = "pending"
  /\ body \in DashboardBodies(dashFetch.month)
  /\ IF dashFetch.getAlerts.state = "resolved"
     THEN FetchResolved(body, dashFetch.getAlerts.value)
     ELSE /\ dashFetch' = [dashFetch EXCEPT !.getDashboard = Resolved(body)]
          /\ UNCHANGED <<dashData, dashAlerts, dashLoading, dashToast,
                         dashOutcome>>
  /\ UNCHANGED <<dashMonth, dashFetches>>
  /\ UNCHANGED notDash

\* api.getAlerts() resolves
GetAlertsResolves(body) ==
  /\ dashFetch.getAlerts.state = "pending"
  /\ IF dashFetch.getDashboard.state = "resolved"
     THEN FetchResolved(dashFetch.getDashboard.value, body)
     ELSE /\ dashFetch' = [dashFetch EXCEPT !.getAlerts = Resolved(body)]
          /\ UNCHANGED <<dashData, dashAlerts, dashLoading, dashToast,
                         dashOutcome>>
  /\ UNCHANGED <<dashMonth, dashFetches>>
  /\ UNCHANGED notDash

\* api.getDashboard(month) rejects
GetDashboardRejects ==
  /\ dashFetch.getDashboard.state = "pending"
  /\ FetchRejected("getDashboard")
  /\ UNCHANGED <<dashMonth, dashFetches>>
  /\ UNCHANGED notDash

\* api.getAlerts() rejects
GetAlertsRejects ==
  /\ dashFetch.getAlerts.state = "pending"
  /\ FetchRejected("getAlerts")
  /\ UNCHANGED <<dashMonth, dashFetches>>
  /\ UNCHANGED notDash

\* a click on a month button with the buttons rendered whatever loading is
DashboardSelectMonthAnyTime(delta) ==
  /\ dashFetches < MaxFetch
  /\ dashMonth' = DashboardChangeMonth(dashMonth, delta)
  /\ dashLoading' = TRUE
  /\ dashFetch' = FetchStarted(DashboardChangeMonth(dashMonth, delta))
  /\ dashFetches' = dashFetches + 1
  /\ UNCHANGED <<dashData, dashAlerts, dashToast, dashOutcome>>
  /\ UNCHANGED notDash

\* a click on a month button, rendered when not loading: changeMonth, then
\* the effect of the new month, fetchDashboard up to its await
DashboardSelectMonth(delta) ==
  /\ ~dashLoading
  /\ dashFetches < MaxFetch
  /\ dashMonth' = DashboardChangeMonth(dashMonth, delta)
  /\ dashLoading' = TRUE
  /\ dashFetch' = FetchStarted(DashboardChangeMonth(dashMonth, delta))
  /\ dashFetches' = dashFetches + 1
  /\ UNCHANGED <<dashData, dashAlerts, dashToast, dashOutcome>>
  /\ UNCHANGED notDash

(***************************************************************************)
(* The Budgets and Expenses pages: the month and filter controls and the   *)
(* list requests they start                                                *)
(***************************************************************************)
\* calls of fetchBudgets / fetchExpenses explored on one mounted page
MaxList == 3

NextMonth == BudgetsChangeMonth(MountMonth, 1)

\* the budgets the backend holds for the signed-in user
ServerBudgets ==
  << [id |-> 1, category |-> "Food", month |-> MountMonth, amount |-> 500,
      spent |-> 100],
     [id |-> 2, category |-> "Food", month |-> NextMonth, amount |-> 300,
      spent |-> 0] >>

\* the expenses the backend holds for the signed-in user
ServerExpenses ==
  << [id |-> 1, category |-> "Food", month |-> MountMonth, amount |-> 100],
     [id |-> 2, category |-> "Transport", month |-> MountMonth, amount |-> 40],
     [id |-> 3, category |-> "Food", month |-> NextMonth, amount |-> 25] >>

RECURSIVE SumField(_, _)
SumField(rws, field) ==
  IF rws = <<>> THEN 0 ELSE Head(rws)[field] + SumField(Tail(rws), field)

\* the body api.getBudgets({ month }) resolves with
getBudgets(params) ==
  LET found == SelectSeq(ServerBudgets, LAMBDA b : b.month = params.month)
  IN  [budgets |-> found,
       total_budget |-> SumField(found, "amount"),
       total_spent |-> SumField(found, "spent")]

\* the body api.getExpenses(params) resolves with; a filter that is the
\* empty string is left out of params
getExpenses(params) ==
  [expenses |->
     SelectSeq(ServerExpenses,
               LAMBDA e : /\ (params.category = "" \/ e.category = params.category)
                          /\ (params.month = <<>> \/ e.month = params.month))]

\* values the month input of the Expenses filters may be given
FilterMonths == {MountMonth, NextMonth, <<>>}

\* values of the category select of the Expenses filters
FilterCategories == {"", "Food", "Transport"}

\* the page is not mounted
ListIdle ==
  /\ listPage = "none"
  /\ listFilters = [category |-> "", month |-> <<>>]
  /\ listItems = <<>>
  /\ listTotalBudget = 0
  /\ listTotalSpent = 0
  /\ listLoading = FALSE
  /\ listPending = {}
  /\ listIssued = 0
  /\ listToast = "none"

\* either page after its first render and effect
InitList ==
  /\ listPage \in {"budgets", "expenses"}
  /\ listFilters = [category |-> "", month |-> MountMonth]
  /\ listItems = <<>>
  /\ listTotalBudget = 0
  /\ listTotalSpent = 0
  /\ listLoading = TRUE
  /\ listPending = {[n |-> 1, filters |-> [category |-> "", month |-> MountMonth]]}
  /\ listIssued = 1
  /\ listToast = "none"

\* the effect on [month] / [filters]: fetchBudgets or fetchExpenses up to
\* its await, with the month or filters of the render it was made in
StartFetch(filters) ==
  /\ listFilters' = filters
  /\ listLoading' = TRUE
  /\ listPending' = listPending \cup {[n |-> listIssued + 1, filters |-> filters]}
  /\ listIssued' = listIssued + 1
  /\ UNCHANGED <<listPage, listItems, listTotalBudget, listTotalSpent,
                 listToast>>

\* Budgets: a month button; the buttons are rendered whatever loading is
BudgetsMonthButton(delta) ==
  /\ listPage = "budgets"
  /\ listIssued < MaxList
  /\ StartFetch([listFilters EXCEPT
                   !.month = BudgetsChangeMonth(listFilters.month, delta)])
  /\ UNCHANGED notList

\* Expenses: onChange of the month input
ExpensesMonthFilter(tok) ==
  /\ listPage = "expenses"
  /\ listIssued < MaxList
  /\ tok # listFilters.month
  /\ StartFetch([listFilters EXCEPT !.month = tok])
  /\ UNCHANGED notList

\* Expenses: onChange of the category select
ExpensesCategoryFilter(category) ==
  /\ listPage = "expenses"
  /\ listIssued < MaxList
  /\ category # listFilters.category
  /\ StartFetch([listFilters EXCEPT !.category = category])
  /\ UNCHANGED notList

\* fetchBudgets after api.getBudgets resolved: the three setters, finally
FetchBudgetsResolves(req) ==
  /\ listPage = "budgets"
  /\ req \in listPending
  /\ listItems' = getBudgets(req.filters).budgets
  /\ listTotalBudget' = getBudgets(req.filters).total_budget
  /\ listTotalSpent' = getBudgets(req.filters).total_spent
  /\ listLoading' = FALSE
  /\ listPending' = listPending \ {req}
  /\ UNCHANGED <<listPage, listFilters, listIssued, listToast>>
  /\ UNCHANGED notList

\* fetchExpenses after api.getExpenses resolved: setExpenses, finally
FetchExpensesResolves(req) ==
  /\ listPage = "expenses"
  /\ req \in listPending
  /\ listItems' = getExpenses(req.filters).expenses
  /\ listLoading' = FALSE
  /\ listPending' = listPending \ {req}
  /\ UNCHANGED <<listPage, listFilters, listTotalBudget, listTotalSpent,
                 listIssued, listToast>>
  /\ UNCHANGED notList

\* fetchBudgets / fetchExpenses after the request rejected: catch, finally
FetchListRejects(req) ==
  /\ req \in listPending
  /\ listToast' = (IF listPage = "budgets" THEN "Failed to load budgets"
                   ELSE "Failed to load expenses")
  /\ listLoading' = FALSE
  /\ listPending' = listPending \ {req}
  /\ UNCHANGED <<listPage, listFilters, listItems, listTotalBudget,
                 listTotalSpent, listIssued>>
  /\ UNCHANGED notList

(***************************************************************************)
(* Specifications                                                          *)
(***************************************************************************)
NextNav ==
  \/ \E delta \in {1, -1} : DashboardClickMonth(delta)
  \/ \E delta \in {1, -1} : BudgetsClickMonth(delta)

InitSpecNav ==
  /\ InitNav
  /\ FormsIdle
  /\ AuthIdle
  /\ RenderIdle
  /\ DbIdle
  /\ ApiIdle
  /\ DashIdle
  /\ ListIdle

SpecNav == InitSpecNav /\ [][NextNav]_vars

NextForms ==
  \/ \E body \in ListBodies : ExpensesFetchSucceeds(body)
  \/ ExpensesFetchFails
  \/ \E expense \in RowsOf(items) \cup {NoRow} : ExpensesOpenModal(expense)
  \/ ExpensesCloseModal
  \/ \E a \in AmountInputs : ExpensesSetAmount(a)
  \/ \E c \in CategoryChoices : ExpensesSetCategory(c)
  \/ ExpensesHandleSubmit
  \/ ExpensesWriteSucceeds
  \/ \E message \in ErrorMessages : ExpensesWriteFails(message)
  \/ \E body \in ListBodies : BudgetsFetchSucceeds(body)
  \/ BudgetsFetchFails
  \/ \E budget \in RowsOf(items) \cup {NoRow} : BudgetsOpenModal(budget)
  \/ BudgetsCloseModal
  \/ \E a \in AmountInputs : BudgetsSetAmount(a)
  \/ \E c \in CategoryChoices : BudgetsSetCategory(c)
  \/ BudgetsHandleSubmit
  \/ BudgetsWriteSucceeds
  \/ \E message \in ErrorMessages : BudgetsWriteFails(message)

InitSpecForms ==
  /\ InitForms
  /\ NavIdle
  /\ AuthIdle
  /\ RenderIdle
  /\ DbIdle
  /\ ApiIdle
  /\ DashIdle
  /\ ListIdle

SpecForms == InitSpecForms /\ [][NextForms]_vars

\* the list pages with their delete buttons, the modal left closed
NextDelete ==
  \/ \E body \in ListBodies : ExpensesFetchSucceeds(body)
  \/ ExpensesFetchFails
  \/ \E id \in RowIds, confirmed \in BOOLEAN : ExpensesHandleDelete(id, confirmed)
  \/ \E id \in RowIds : ExpensesDeleteSucceeds(id)
  \/ \E id \in RowIds : ExpensesDeleteFails(id)
  \/ \E body \in ListBodies : BudgetsFetchSucceeds(body)
  \/ BudgetsFetchFails
  \/ \E id \in RowIds, confirmed \in BOOLEAN : BudgetsHandleDelete(id, confirmed)
  \/ \E id \in RowIds : BudgetsDeleteSucceeds(id)
  \/ \E id \in RowIds : BudgetsDeleteFails(id)

SpecDelete == InitSpecForms /\ [][NextDelete]_vars

NextAuth ==
  \/ \E value \in NameInputs : SignupSetField("fullName", value)
  \/ \E value \in EmailInputs : SignupSetField("email", value)
  \/ \E value \in PasswordInputs : SignupSetField("password", value)
  \/ \E value \in PasswordInputs : SignupSetField("confirmPassword", value)
  \/ SignupHandleSubmit
  \/ SignupSucceeds
  \/ \E message \in ErrorMessages : SignupFails(message)
  \/ \E value \in EmailInputs : LoginSetField("email", value)
  \/ \E value \in PasswordInputs : LoginSetField("password", value)
  \/ LoginHandleSubmit
  \/ LoginSucceeds
  \/ \E message \in ErrorMessages : LoginFails(message)

InitSpecAuth ==
  /\ InitAuth
  /\ NavIdle
  /\ FormsIdle
  /\ RenderIdle
  /\ DbIdle
  /\ ApiIdle
  /\ DashIdle
  /\ ListIdle

SpecAuth == InitSpecAuth /\ [][NextAuth]_vars

NextRender ==
  \/ RenderBudgetCards
  \/ RenderDashboard
  \/ RenderBudgetsSummary

InitSpecRender ==
  /\ InitRender
  /\ NavIdle
  /\ FormsIdle
  /\ AuthIdle
  /\ DbIdle
  /\ ApiIdle
  /\ DashIdle
  /\ ListIdle

SpecRender == InitSpecRender /\ [][NextRender]_vars

NextDb ==
  \/ \E uid \in Users, target \in Ids \cup {0} : DbSelect(uid, target)
  \/ \E uid \in Users, new \in StmtRows : DbInsert(uid, new)
  \/ \E uid \in Users, target \in Ids \cup {0}, set \in SetLists :
       DbUpdate(uid, target, set)
  \/ \E uid \in Users, target \in Ids \cup {0} : DbDelete(uid, target)

InitSpecDb ==
  /\ InitDb
  /\ NavIdle
  /\ FormsIdle
  /\ AuthIdle
  /\ RenderIdle
  /\ ApiIdle
  /\ DashIdle
  /\ ListIdle

SpecDb == InitSpecDb /\ [][NextDb]_vars

NextApi ==
  \/ \E sess \in Sessions : GetSessionResolves(sess)
  \/ \E sess \in Sessions : OnAuthStateChange(sess)
  \/ \E options \in RequestOptions, response \in Responses :
       ApiRequest(options, response)
  \/ \E path \in Paths : Visit(path)

InitSpecApi ==
  /\ InitApi
  /\ NavIdle
  /\ FormsIdle
  /\ AuthIdle
  /\ RenderIdle
  /\ DbIdle
  /\ DashIdle
  /\ ListIdle

SpecApi == InitSpecApi /\ [][NextApi]_vars


NextDash ==
  \/ \E body \in DashboardBodies(dashFetch.month) : GetDashboardResolves(body)
  \/ \E body \in AlertsBodies : GetAlertsResolves(body)
  \/ GetDashboardRejects
  \/ GetAlertsRejects
  \/ \E delta \in {1, -1} : DashboardSelectMonth(delta)

InitSpecDash ==
  /\ InitDash
  /\ NavIdle
  /\ FormsIdle
  /\ AuthIdle
  /\ RenderIdle
  /\ DbIdle
  /\ ApiIdle
  /\ ListIdle

SpecDash == InitSpecDash /\ [][NextDash]_vars

NextList ==
  \/ \E delta \in {1, -1} : BudgetsMonthButton(delta)
  \/ \E tok \in FilterMonths : ExpensesMonthFilter(tok)
  \/ \E category \in FilterCategories : ExpensesCategoryFilter(category)
  \/ \E req \in listPending : FetchBudgetsResolves(req)
  \/ \E req \in listPending : FetchExpensesResolves(req)
  \/ \E req \in listPending : FetchListRejects(req)

InitSpecList ==
  /\ InitList
  /\ NavIdle
  /\ FormsIdle
  /\ AuthIdle
  /\ RenderIdle
  /\ DbIdle
  /\ ApiIdle
  /\ DashIdle

SpecList == InitSpecList /\ [][NextList]_vars

(***************************************************************************)
(* C1: month navigation                                                    *)
(***************************************************************************)
\* the characters of a string literal's month token
Tok(y1, y2, y3, y4, m1, m2) == <<y1, y2, y3, y4, "-", m1, m2>>

\* a "YYYY-MM" token with MM in 01..12
IsMonthToken(t) ==
  /\ Len(t) = 7
  /\ \A i \in {1, 2, 3, 4, 6, 7} : IsDigit(t[i])
  /\ t[5] = "-"
  /\ 10 * DigitVal(t[6]) + DigitVal(t[7]) \in 1..12

TokenYear(t) ==
  1000 * DigitVal(t[1]) + 100 * DigitVal(t[2]) + 10 * DigitVal(t[3]) + DigitVal(t[4])

TokenMonth(t) == 10 * DigitVal(t[6]) + DigitVal(t[7])

\* the token of the month that lies delta months after year y, month m,
\* counted on the line of months y * 12 + (m - 1)
CalendarToken(y, m, delta) ==
  LET idx == y * 12 + (m - 1) + delta
  IN  NatToStr(idx \div 12) \o <<"-">> \o
      <<DigitChar(((idx % 12) + 1) \div 10), DigitChar(((idx % 12) + 1) % 10)>>

\* C1: after a click with delta +1 or -1 from a token "YYYY-MM" (MM in
\* 01..12) the month state is the calendar successor or predecessor month;
\* December +1 is January of the next year, January -1 is December of the
\* previous year, otherwise the year stays and the month moves by delta;
\* "2024-12" -1 is "2024-11" and "2024-12" +1 is "2025-01".
C1_MonthNavigation ==
  (lastNav # NoNav /\ IsMonthToken(lastNav.from)) =>
    LET y == TokenYear(lastNav.from)
        m == TokenMonth(lastNav.from)
        d == lastNav.delta
    IN  /\ month = CalendarToken(y, m, d)
        /\ (m = 12 /\ d = 1) =>
             month = NatToStr(y + 1) \o <<"-", "0", "1">>
        /\ (m = 1 /\ d = -1) =>
             month = NatToStr(y - 1) \o <<"-", "1", "2">>
        /\ (~(m = 12 /\ d = 1) /\ ~(m = 1 /\ d = -1)) =>
             /\ SubSeq(month, 1, 5) = SubSeq(lastNav.from, 1, 5)
             /\ Len(month) = 7
             /\ TokenMonth(month) = m + d
        /\ (lastNav.from = Tok("2", "0", "2", "4", "1", "2") /\ d = -1) =>
             month = Tok("2", "0", "2", "4", "1", "1")
        /\ (lastNav.from = Tok("2", "0", "2", "4", "1", "2") /\ d = 1) =>
             month = Tok("2", "0", "2", "5", "0", "1")

\* a December +1 click has rolled into January of the next year
C1_Witness ==
  /\ lastNav = [from |-> Tok("2", "0", "2", "4", "1", "2"), delta |-> 1]
  /\ month = Tok("2", "0", "2", "5", "0", "1")


(***************************************************************************)
(* C2: non-positive amounts are rejected before any request                *)
(***************************************************************************)
\* the amount inputs that are empty or denote a value <= 0
NonPositiveInputs ==
  { <<>>, <<"0">>, <<"-", "0">>, <<"-", "5">>, <<"0", ".", "0">> }

\* C2: a submit of the expense form or of the budget form whose amount is
\* empty or parses to a value <= 0 issues no create/update request, leaves
\* submitting false and the modal open, and starts no list refetch.
C2_RejectNonPositiveAmount ==
  [][((ExpensesHandleSubmit \/ BudgetsHandleSubmit) /\
      formAmount \in NonPositiveInputs) =>
       /\ writeInFlight = NoWrite
       /\ writeInFlight' = NoWrite
       /\ submitting' = FALSE
       /\ modalOpen' = TRUE
       /\ listInFlight' = listInFlight
       /\ loading' = loading
       /\ items' = items]_vars

\* a submit of "-5" in the budget form was turned down
C2_Witness ==
  /\ formPage = "budgets"
  /\ formAmount = <<"-", "5">>
  /\ toast = "Please enter a valid amount"
  /\ modalOpen
  /\ ~submitting
  /\ writeInFlight = NoWrite

(***************************************************************************)
(* C3: sign-up and sign-in validation                                      *)
(***************************************************************************)
SignupInputValid ==
  /\ fullName # ""
  /\ email # ""
  /\ password # ""
  /\ password = confirmPassword
  /\ Len(password) >= 6

LoginInputValid == email # "" /\ password # ""

\* C3: signUp is called only with a non-empty name, email and password,
\* the password equal to its confirmation and at least 6 characters long;
\* signIn only with a non-empty email and password.  A rejected submit makes
\* no auth-provider call, leaves loading false and does not navigate.
C3_AuthValidation ==
  /\ [](authCall.fn = "signUp" => SignupInputValid)
  /\ [](authCall.fn = "signIn" => LoginInputValid)
  /\ [][(SignupHandleSubmit /\ ~SignupInputValid) =>
          (authCall' = NoCall /\ authLoading' = FALSE /\
           location' = location)]_vars
  /\ [][(LoginHandleSubmit /\ ~LoginInputValid) =>
          (authCall' = NoCall /\ authLoading' = FALSE /\
           location' = location)]_vars

\* a sign-up with a five-character password was turned down
C3_Witness ==
  /\ authPage = "signup"
  /\ password = "abcde"
  /\ confirmPassword = "abcde"
  /\ authToast = "Password must be at least 6 characters"
  /\ authCall = NoCall
  /\ ~authLoading
  /\ location = "/signup"

(***************************************************************************)
(* C4: budget status classification                                        *)
(***************************************************************************)
\* C4: every rendered budget gets exactly one of the three outcomes:
\* "exceeded" iff spent / amount x 100 >= 100, "warning" iff it is >= 80 and
\* < 100, "ok" otherwise; Food 1000 of 1200 with Transport 800 of 500 gives
\* one warning (Food, 83%) and one exceeded (Transport, 160%).
C4_BudgetStatus ==
  (view = "budgetCards" /\ renderOut.done) =>
    /\ \A i \in 1..Len(renderIn.budgets) :
         LET b == renderIn.budgets[i]
             st == renderOut.status[i]
         IN  /\ st \in {"exceeded", "warning", "ok"}
             /\ st = "exceeded" <=> b.spent * 100 >= 100 * b.amount
             /\ st = "warning" <=> (b.spent * 100 >= 80 * b.amount /\
                                    b.spent * 100 < 100 * b.amount)
             /\ st = "ok" <=> b.spent * 100 < 80 * b.amount
    /\ (renderIn.budgets = <<BudgetView("Food", 1000, 1200),
                             BudgetView("Transport", 800, 500)>>) =>
         /\ renderOut.status = <<"warning", "exceeded">>
         /\ renderOut.text = <<<<"8", "3">>, <<"1", "6", "0">>>>

\* the two budgets of the example have been classified
C4_Witness ==
  /\ view = "budgetCards"
  /\ renderOut.done
  /\ renderIn.budgets = <<BudgetView("Food", 1000, 1200),
                          BudgetView("Transport", 800, 500)>>
  /\ renderOut.status = <<"warning", "exceeded">>

(***************************************************************************)
(* C5: percentage used with a zero total budget                            *)
(***************************************************************************)
\* C5: when the month's total budget is 0 or absent, the percentage used
\* that is shown is exactly 0 whatever the total spent is: the Dashboard's
\* budgetPercentage is the number 0 and the Budgets page text is "0";
\* neither is NaN or infinite.
C5_ZeroBudgetPercentage ==
  /\ (view = "dashboard" /\ renderOut.done /\
      (renderIn.isNull \/
       renderIn.total_budget_this_month \in {JsUndefined, JsNum(0, 1)})) =>
       renderOut.budgetPercentage = JsNum(0, 1)
  /\ (view = "budgetsSummary" /\ renderOut.done /\ renderIn.totalBudget = 0) =>
       renderOut.text = <<"0">>

\* the Dashboard rendered a month with money spent and a total budget of 0
C5_Witness ==
  /\ view = "dashboard"
  /\ renderOut.done
  /\ ~renderIn.isNull
  /\ renderIn.total_budget_this_month = JsNum(0, 1)
  /\ renderIn.total_spent_this_month = JsNum(800, 1)
  /\ renderOut.budgetPercentage = JsNum(0, 1)

(***************************************************************************)
(* C6: one budget per (user, category, month)                              *)
(***************************************************************************)
SameBudgetKey(r1, r2) ==
  r1.user_id = r2.user_id /\ r1.category = r2.category /\ r1.month = r2.month

RowsOwnedBy(u, table) == {r \in table : r.user_id = u}

\* C7: whatever select, insert, update or delete a user issues, with any
\* row id or user_id in it, the rows it gets back are its own, and the rows
\* owned by every other user are the same before and after it (none
\* changed, deleted or created).
C7_UserIsolation ==
  /\ [](lastStmt.seen \subseteq RowsOwnedBy(lastStmt.by, lastStmt.seen))
  /\ [][\A u \in Users :
          lastStmt'.by # u => RowsOwnedBy(u, rows') = RowsOwnedBy(u, rows)]_vars

\* A's attempt to hand a row to B, or to write a row as B, was rejected
\* while B owns a row
C7_Witness ==
  /\ lastStmt.by = "A"
  /\ lastStmt.error = "rls"
  /\ RowsOwnedBy("B", rows) # {}
  /\ RowsOwnedBy("A", rows) # {}

(***************************************************************************)
(* C8: stored amounts are positive                                         *)
(***************************************************************************)
\* C8: every stored expense and budget has amount > 0; an insert or update
\* either stores what it was given or is rejected and changes nothing, so a
\* write that would store an amount <= 0 is rejected and leaves the rows
\* unchanged.
C8_PositiveAmounts ==
  /\ [](\A r \in rows : r.amount > 0)
  /\ [][(lastStmt'.op \in {"insert", "update"}) =>
          \/ lastStmt'.error # "none" /\ rows' = rows
          \/ lastStmt'.error = "none" /\ lastStmt'.seen \subseteq rows']_vars

\* a write was rejected by the amount check while rows are stored
C8_Witness ==
  /\ lastStmt.op \in {"insert", "update"}
  /\ lastStmt.error = "check"
  /\ rows # {}

(***************************************************************************)
(* C9: the bearer token of a request                                       *)
(***************************************************************************)
\* C9: a request sent while the client's token is non-null carries
\* Authorization "Bearer <token>" with the token most recently passed to
\* setToken, whatever Authorization options.headers gave; while the token is
\* null the client adds no Authorization header.
C9_BearerToken ==
  lastRequest.sent =>
    /\ lastRequest.token # Null =>
         /\ lastRequest.authorization.has
         /\ lastRequest.authorization.value = "Bearer " \o lastRequest.lastSet
    /\ lastRequest.token = Null =>
         /\ ~lastRequest.authorization.added
         /\ lastRequest.authorization.has = lastRequest.options.hasAuthorization
         /\ lastRequest.options.hasAuthorization =>
              lastRequest.authorization.value = lastRequest.options.authorization

\* a request that brought its own Authorization went out with the bearer
\* token of the refreshed session
C9_Witness ==
  /\ lastRequest.sent
  /\ lastRequest.token = "t2"
  /\ lastRequest.options.hasAuthorization
  /\ lastRequest.authorization.value = "Bearer t2"

(***************************************************************************)
(* C10: the outcomes of a request                                          *)
(***************************************************************************)
\* C10: for a response that is not 2xx the call throws, with the message
\* being the body's detail when the body is JSON with a non-empty detail,
\* "HTTP <status>" when the JSON body has no detail, and "Request failed"
\* when the body is not JSON; for 204 it returns null; for any other 2xx
\* response (with a JSON body) it returns the parsed body.
C10_RequestOutcomes ==
  (lastRequest.sent /\ lastRequest.response.received) =>
    LET st == lastRequest.response.status
        body == lastRequest.response.body
        withDetail == body.json /\ body.hasDetail /\ body.detail # ""
    IN  /\ ~Ok(st) =>
             /\ lastOutcome.kind = "throw"
             /\ withDetail =>
                  (lastOutcome.message = body.detail /\ lastOutcome.status = 0)
             /\ (body.json /\ ~withDetail) =>
                  (lastOutcome.message = "HTTP " /\ lastOutcome.status = st)
             /\ ~body.json =>
                  (lastOutcome.message = "Request failed" /\
                   lastOutcome.status = 0)
        /\ st = 204 =>
             (lastOutcome.kind = "return" /\ lastOutcome.value = JsonNull)
        /\ (Ok(st) /\ st # 204 /\ body.json) =>
             (lastOutcome.kind = "return" /\ lastOutcome.value = body)

(***************************************************************************)
(* C11: protected routes                                                   *)
(***************************************************************************)
ProtectedPaths == {"/dashboard", "/expenses", "/budgets"}

ProtectedPages == {"Dashboard", "Expenses", "Budgets"}

\* C11: the Dashboard, Expenses and Budgets pages are shown only while auth
\* loading is false and the user is non-null; a visit of /dashboard,
\* /expenses or /budgets with loading false and user null ends at /login;
\* and a visit while loading is true shows only the spinner, with no
\* protected page and no redirect.
C11_ProtectedRoutes ==
  /\ [](routeShown.page \in ProtectedPages =>
          (~providerLoading /\ user # Null))
  /\ [](providerLoading =>
          (routeShown = Spinner /\
           (lastVisit \in ProtectedPaths => routePath = lastVisit)))
  /\ [][\A path \in ProtectedPaths :
          Visit(path) =>
            /\ (~providerLoading /\ user = Null) =>
                 (routePath' = "/login" /\ routeShown' = Page("Login"))
            /\ providerLoading =>
                 (routePath' = path /\ routeShown' = Spinner)]_vars

\* /expenses was visited with no user and loading over, and the login page
\* is what is shown
C11_Witness ==
  /\ lastVisit = "/expenses"
  /\ ~providerLoading
  /\ user = Null
  /\ routePath = "/login"
  /\ routeShown = Page("Login")

(***************************************************************************)
(* C12: a budget update carries the amount only                            *)
(***************************************************************************)
\* C12: submitting the Budgets form in edit mode sends updateBudget with the
\* id of the edited budget and a payload of the parsed amount alone, with no
\* category and no month; in edit mode the category selector cannot be
\* changed, so the form's category stays that of the edited budget.
C12_UpdateAmountOnly ==
  /\ [](writeInFlight.op = "updateBudget" =>
          /\ writeInFlight.category = ""
          /\ writeInFlight.month = <<>>
          /\ writeInFlight.id # 0)
  /\ []((formPage = "budgets" /\ editing # NoRow) =>
          (modalOpen /\ formCategory = editing.category))
  /\ [][(BudgetsHandleSubmit /\ editing # NoRow /\ submitting') =>
          writeInFlight' =
            [op |-> "updateBudget", id |-> editing.id,
             amount |-> parseFloat(formAmount), category |-> "",
             month |-> <<>>]]_vars
  /\ [][(formPage = "budgets" /\ editing # NoRow) =>
          formCategory' = formCategory]_vars

\* the Food budget is being edited and its update is in flight
C12_Witness ==
  /\ formPage = "budgets"
  /\ editing = Row1
  /\ writeInFlight.op = "updateBudget"
  /\ writeInFlight.id = 1
  /\ writeInFlight.amount = parseFloat(<<"5">>)

StatusStyle(status) ==
  CASE status = "exceeded" -> "danger"
    [] status = "warning" -> "warning"
    [] OTHER -> "success"

\* C14: the Dashboard's Budget Used indicator and the summary bar of the
\* Budgets page show danger when spent is >= 100% of the total budget,
\* warning when it is >= 80% and < 100%, success otherwise: the class that
\* getBudgetStatus gives for the same percentage, at exactly 80% and exactly
\* 100% too.
C14_AggregateIndicators ==
  /\ (view = "dashboard" /\ renderOut.done) =>
       renderOut.style =
         StatusStyle(getBudgetStatus(
           [percentage_used |-> renderOut.budgetPercentage]))
  /\ (view = "budgetsSummary" /\ renderOut.done /\ renderIn.totalBudget > 0) =>
       renderOut.style =
         StatusStyle(getBudgetStatus(
           [percentage_used |->
              PercentageUsed(renderIn.totalSpent, renderIn.totalBudget)]))

(***************************************************************************)
(* C15: the width of the summary bar of the Budgets page                   *)
(***************************************************************************)
\* C15: for totalBudget >= 0 and totalSpent >= 0 the width of the summary
\* bar is min(P, 100), P being the percentage used of the "% used" text:
\* spent / budget x 100 for a positive total budget, and 0 for a total
\* budget of 0, whatever was spent.
C15_SummaryBarWidth ==
  (view = "budgetsSummary" /\ renderOut.done) =>
    LET P == IF renderIn.totalBudget > 0
             THEN JsNum(renderIn.totalSpent * 100, renderIn.totalBudget)
             ELSE JsNum(0, 1)
    IN  /\ renderOut.width.kind = "num"
        /\ LET w == renderOut.width
               m == IF P.num > 100 * P.den THEN JsNum(100, 1) ELSE P
           IN  w.num * m.den = m.num * w.den

(***************************************************************************)
(* C16: a failed create or update leaves the form as it was                *)
(***************************************************************************)
\* C16: when the create or update request of the expense form or of the
\* budget form fails, the modal stays as it is (open, unless the user closed
\* it meanwhile), the editing target and the form data are unchanged, no
\* list request is issued, the displayed list is unchanged, no request is
\* sent again, and submitting becomes false.
C16_FailedWriteNoPartialEffect ==
  [][((\E message \in ErrorMessages : ExpensesWriteFails(message)) \/
      (\E message \in ErrorMessages : BudgetsWriteFails(message))) =>
       /\ writeInFlight # NoWrite
       /\ modalOpen' = modalOpen
       /\ editing' = editing
       /\ formAmount' = formAmount
       /\ formCategory' = formCategory
       /\ listInFlight' = listInFlight
       /\ loading' = loading
       /\ items' = items
       /\ totalBudget' = totalBudget
       /\ totalSpent' = totalSpent
       /\ writeInFlight' = NoWrite
       /\ submitting' = FALSE
       /\ toast' \in {"Request failed", "Failed to save expense",
                      "Failed to save budget"}]_vars

\* the update of the Food budget failed: the form is still open on it with
\* the amount typed, nothing is in flight and the list is not loading
C16_Witness ==
  /\ formPage = "budgets"
  /\ toast = "Failed to save budget"
  /\ modalOpen
  /\ editing = Row1
  /\ formAmount = <<"5">>
  /\ ~submitting
  /\ writeInFlight = NoWrite
  /\ listInFlight = 0
  /\ ~loading

(***************************************************************************)
(* C17: one write per submit of the expense form                           *)
(***************************************************************************)
ExpenseOps == {"createExpense", "updateExpense"}

\* C17: a submit of the expense form with a valid amount issues one write
\* request and nothing else: updateExpense with the id of editingExpense
\* when that is non-null, createExpense otherwise, with the modal, the
\* editing target and the list requests as they were.  When that request
\* succeeds, and only then, handleSubmit closes the modal, resets
\* editingExpense to null and issues one list request; no second write is
\* issued while one is in flight.
C17_OneWritePerSubmit ==
  /\ []((formPage = "expenses" /\ writeInFlight # NoWrite) =>
          (submitting /\ writeInFlight.op \in ExpenseOps))
  /\ [][(ExpensesHandleSubmit /\ formAmount # <<>> /\
          ~LeqZero(parseFloat(formAmount))) =>
          /\ writeInFlight = NoWrite
          /\ writeInFlight'.op \in ExpenseOps
          /\ writeInFlight'.op = "updateExpense" <=> editing # NoRow
          /\ writeInFlight'.id = editing.id
          /\ modalOpen' = modalOpen
          /\ editing' = editing
          /\ listInFlight' = listInFlight]_vars
  /\ [][ExpensesWriteSucceeds =>
          /\ modalOpen' = FALSE
          /\ editing' = NoRow
          /\ listInFlight' = listInFlight + 1
          /\ writeInFlight' = NoWrite]_vars
  /\ [][(\E message \in ErrorMessages : ExpensesWriteFails(message)) =>
          /\ modalOpen' = modalOpen
          /\ editing' = editing
          /\ listInFlight' = listInFlight
          /\ writeInFlight' = NoWrite]_vars

\* the second expense of the list is being edited and its update is in
\* flight, the modal still open
C17_Witness ==
  /\ formPage = "expenses"
  /\ editing = Row2
  /\ modalOpen
  /\ submitting
  /\ writeInFlight.op = "updateExpense"
  /\ writeInFlight.id = 2

(***************************************************************************)
(* C18: deleting an expense or a budget                                    *)
(***************************************************************************)
HandleDeleteStep(confirmed) ==
  \E id \in RowIds :
    ExpensesHandleDelete(id, confirmed) \/ BudgetsHandleDelete(id, confirmed)

\* C18: a click on a delete button sends one delete request when the
\* confirmation is accepted, and none, with the page state unchanged, when
\* it is declined.  A delete request that fails leaves the displayed list
\* unchanged and starts neither a list request nor another delete request;
\* a list request is started only by a delete request that succeeded, one
\* for each.
C18_DeleteOnce ==
  /\ [][HandleDeleteStep(FALSE) =>
          /\ deleteInFlight' = deleteInFlight
          /\ items' = items
          /\ loading' = loading
          /\ listInFlight' = listInFlight
          /\ toast' = toast
          /\ totalBudget' = totalBudget
          /\ totalSpent' = totalSpent]_vars
  /\ [][HandleDeleteStep(TRUE) =>
          /\ deleteInFlight' =
               [deleteInFlight EXCEPT ![lastDelete'.id] = @ + 1]
          /\ items' = items
          /\ listInFlight' = listInFlight]_vars
  /\ [][(\E id \in RowIds : ExpensesDeleteFails(id) \/ BudgetsDeleteFails(id)) =>
          /\ DeleteCount' = DeleteCount - 1
          /\ items' = items
          /\ loading' = loading
          /\ listInFlight' = listInFlight
          /\ totalBudget' = totalBudget
          /\ totalSpent' = totalSpent]_vars
  /\ [][listInFlight' > listInFlight =>
          /\ listInFlight' = listInFlight + 1
          /\ DeleteCount' = DeleteCount - 1
          /\ toast' \in {"Expense deleted", "Budget deleted"}]_vars

\* the delete of the first budget was confirmed and then failed: the two
\* budgets are still displayed and nothing is in flight
C18_Witness ==
  /\ formPage = "budgets"
  /\ lastDelete = [id |-> 1, confirmed |-> TRUE]
  /\ toast = "Failed to delete budget"
  /\ items = <<Row1, Row2>>
  /\ DeleteCount = 0
  /\ listInFlight = 0
  /\ ~loading

(***************************************************************************)
(* C19: the category of a budget created through the form                  *)
(***************************************************************************)
\* C19: in create mode the Budgets form never submits a category that has
\* a budget in the displayed list: opening the form preselects a category
\* without a budget, the selector offers only such categories, and Add
\* Budget is disabled when every category has one; so whenever createBudget
\* is sent, its category has no budget in the list displayed at that
\* moment, also when a list fetch completed while the form was open.
C19_CreateOnlyFreeCategory ==
  /\ [][BudgetsOpenModal(NoRow) =>
          (formCategory' \notin usedCategories /\
           usedCategories # CategoryValues)]_vars
  /\ [][\A c \in CategoryValues :
          (BudgetsSetCategory(c) /\ editing = NoRow) =>
            c \notin usedCategories]_vars
  /\ [][(BudgetsHandleSubmit /\ editing = NoRow /\
          writeInFlight'.op = "createBudget") =>
          writeInFlight'.category \notin usedCategories]_vars

(***************************************************************************)
(* C20: the category of what the forms send                                *)
(***************************************************************************)
\* C20: the rows loaded all having a category of CATEGORIES, every create
\* or update payload of the expense form and every create payload of the
\* budget form carries a category of CATEGORIES, and so does the form's
\* category at any moment, after any sequence of open, edit, change
\* category, cancel and submit.
C20_CategoryInFixedSet ==
  (\A i \in 1..Len(items) : items[i].category \in CategoryValues) =>
    /\ formPage \in {"expenses", "budgets"} => formCategory \in CategoryValues
    /\ writeInFlight.op \in {"createExpense", "updateExpense", "createBudget"} =>
         writeInFlight.category \in CategoryValues

\* an expense is being created with the category changed to Other
C20_Witness ==
  /\ formPage = "expenses"
  /\ editing = NoRow
  /\ items = <<Row1>>
  /\ writeInFlight.op = "createExpense"
  /\ writeInFlight.category = "Other"

(***************************************************************************)
(* C21: public routes send a signed-in user to the dashboard               *)
(***************************************************************************)
PublicPaths == {"/login", "/signup"}

PublicPages == {"Login", "Signup"}

\* C21: with auth loading false and the user non-null, a visit of /login or
\* /signup ends at /dashboard, and the Login and Signup pages are never what
\* is shown in such a state; while loading is true the spinner alone is
\* shown, and a visit of /login or /signup then stays where it is.
C21_PublicRoutes ==
  /\ []((~providerLoading /\ user # Null) =>
          routeShown.page \notin PublicPages)
  /\ [](providerLoading => routeShown = Spinner)
  /\ [][\A path \in PublicPaths :
          (lastVisit' = path /\ Visit(path)) =>
            /\ (~providerLoading /\ user # Null) =>
                 (routePath' = "/dashboard" /\
                  routeShown' = Page("Dashboard"))
            /\ providerLoading =>
                 (routePath' = path /\ routeShown' = Spinner)]_vars

\* /signup was visited by a signed-in user with loading over, and the
\* dashboard is what is shown
C21_Witness ==
  /\ lastVisit = "/signup"
  /\ ~providerLoading
  /\ user # Null
  /\ routePath = "/dashboard"
  /\ routeShown = Page("Dashboard")

(***************************************************************************)
(* C22: the state after an auth state change event                         *)
(***************************************************************************)
\* the value's isAuthenticated
isAuthenticated == Truthy(user)

\* C22: right after the onAuthStateChange callback has handled an event,
\* session is the event's session, user is that session's user (null for a
\* null session), the API client's token is that session's access token
\* (null when there is none) and loading is false; after a sign-out event
\* isAuthenticated is false, and a request sent while the token is null gets
\* no bearer token from the client: its Authorization header, if any, is the
\* caller's own.
C22_AuthStateChange ==
  /\ [][\A sess \in Sessions :
          OnAuthStateChange(sess) =>
            /\ session' = sess
            /\ user' = (IF sess.isNull THEN Null ELSE sess.user)
            /\ apiToken' = (IF sess.isNull THEN Null ELSE sess.access_token)
            /\ ~providerLoading'
            /\ sess.isNull => (~isAuthenticated' /\ apiToken' = Null)]_vars
  /\ [][(lastRequest' # lastRequest /\ apiToken = Null) =>
          /\ lastRequest'.sent
          /\ lastRequest'.token = Null
          /\ ~lastRequest'.authorization.added
          /\ lastRequest'.authorization.has =
               lastRequest'.options.hasAuthorization
          /\ lastRequest'.authorization.has =>
               lastRequest'.authorization.value =
                 lastRequest'.options.authorization]_vars
  /\ []((lastRequest.sent /\ lastRequest.token = Null) =>
          ~lastRequest.authorization.added)

\* an event without a session was the last callback to run (getSession is
\* still pending, yet loading is over), and a request sent since then went
\* out with no Authorization header
C22_Witness ==
  /\ sessionPending
  /\ ~providerLoading
  /\ session = NullSession
  /\ ~isAuthenticated
  /\ apiToken = Null
  /\ lastRequest.sent
  /\ lastRequest.token = Null
  /\ ~lastRequest.authorization.has

(***************************************************************************)
(* C23: getSession resolving after an auth event                           *)
(***************************************************************************)
\* C23: when the getSession callback runs after an auth state change event
\* has already been handled (loading is false while getSession is pending),
\* user and session stay those of that event.
C23_GetSessionKeepsNewerState ==
  [][\A sess \in Sessions :
       (GetSessionResolves(sess) /\ ~providerLoading) =>
         (session' = session /\ user' = user)]_vars

(***************************************************************************)
(* C24: the API client's token follows the user                            *)
(***************************************************************************)
\* C24: in every state the API client's token is null when user is null and
\* is the current session's access token when user is non-null.
C24_TokenFollowsUser ==
  /\ user = Null => apiToken = Null
  /\ user # Null => apiToken = session.access_token

(***************************************************************************)
(* C25: the list shown after a change of month or filters                  *)
(***************************************************************************)
\* the list and totals the request for the current month / filters gives
ListForFilters ==
  IF listPage = "budgets"
  THEN [items |-> getBudgets(listFilters).budgets,
        totalBudget |-> getBudgets(listFilters).total_budget,
        totalSpent |-> getBudgets(listFilters).total_spent]
  ELSE [items |-> getExpenses(listFilters).expenses,
        totalBudget |-> 0, totalSpent |-> 0]

\* C25: on the Budgets and Expenses pages, once every list request issued
\* has completed and none of them failed, the list and totals shown are the
\* response to the request made for the currently selected month / filters.
C25_LatestSelectionShown ==
  (listPage # "none" /\ listPending = {} /\ listToast = "none") =>
    /\ listItems = ListForFilters.items
    /\ listTotalBudget = ListForFilters.totalBudget
    /\ listTotalSpent = ListForFilters.totalSpent

(***************************************************************************)
(* C27: the loading flag and the list requests in flight                   *)
(***************************************************************************)
\* C27: on the Budgets and Expenses pages loading is true in every state
\* where at least one list request is in flight, and false once every
\* list request in flight has settled.
C27_LoadingWhileInFlight ==
  /\ listPending # {} => listLoading
  /\ listPending = {} => ~listLoading

(***************************************************************************)
(* C26: one Dashboard load at a time                                       *)
(***************************************************************************)
\* C26: on the Dashboard a load starts only while loading is false and no
\* load is in flight, so at most one is in flight at any time, and the one
\* in flight is for the selected month; hence whenever loading is false and
\* the most recent load succeeded, data is the response api.getDashboard
\* gave for the currently selected month.
C26_OneLoadAtATime ==
  /\ [][dashFetches' # dashFetches =>
          /\ ~dashLoading
          /\ dashFetch = NoFetch
          /\ dashLoading'
          /\ dashFetch' = FetchStarted(dashMonth')]_vars
  /\ [][dashMonth' # dashMonth => dashFetches' = dashFetches + 1]_vars
  /\ [](dashFetch # NoFetch => dashFetch.month = dashMonth)
  /\ []((~dashLoading /\ dashOutcome = "succeeded") =>
          dashData \in DashboardBodies(dashMonth))
  /\ [][\A body \in DashboardBodies(dashFetch.month) :
          (GetDashboardResolves(body) /\ dashOutcome' = "succeeded" /\
           ~dashLoading') => dashData' = body]_vars

\* the month was changed twice, away from the mount month; the second load
\* succeeded after a failed one, and data is the response for that month
C26_Witness ==
  /\ dashMonth = DashboardChangeMonth(DashboardChangeMonth(MountMonth, 1), 1)
  /\ ~dashLoading
  /\ dashOutcome = "succeeded"
  /\ dashToast = "Failed to load dashboard"
  /\ dashData = [isNull |-> FALSE, month |-> dashMonth,
                 total_spent_this_month |-> 600]

(***************************************************************************)
(* C28: month navigation is invertible                                     *)
(***************************************************************************)
\* changeMonth of the mounted page
PageChangeMonth(tok, delta) ==
  IF navPage = "dashboard" THEN DashboardChangeMonth(tok, delta)
  ELSE BudgetsChangeMonth(tok, delta)

\* C28: from a month token with a four-digit year and MM in 01..12, a click
\* with delta +1 followed by a click with delta -1, and a click with -1
\* followed by a click with +1, both bring the month state back to the
\* token they started from.
C28_MonthNavigationInvertible ==
  /\ [][(lastNav # NoNav /\ lastNav' # lastNav /\
         IsMonthToken(lastNav.from) /\ lastNav'.delta = 0 - lastNav.delta) =>
          month' = lastNav.from]_vars
  /\ []((navPage # "none" /\ IsMonthToken(month)) =>
          /\ PageChangeMonth(PageChangeMonth(month, 1), -1) = month
          /\ PageChangeMonth(PageChangeMonth(month, -1), 1) = month)

\* on the Budgets page the month went from 1000-01 back to 999-12 and a +1
\* click has brought it to 1000-01 again
C28_Witness ==
  /\ navPage = "budgets"
  /\ navCount = 2
  /\ lastNav = [from |-> <<"9", "9", "9", "-", "1", "2">>, delta |-> 1]
  /\ month = Tok("1", "0", "0", "0", "0", "1")

(***************************************************************************)
(* C29: the month state stays a well-formed token                          *)
(***************************************************************************)
\* the year changeMonth reads from the month state
StateYear(tok) == ToNumber(Split(tok, "-")[1])

\* seven characters: a four-digit year 1000..9999, a hyphen, and a
\* zero-padded month 01..12
WellFormedToken(t) ==
  /\ Len(t) = 7
  /\ \A i \in {1, 2, 3, 4, 6, 7} : IsDigit(t[i])
  /\ t[1] # "0"
  /\ t[5] = "-"
  /\ TokenMonth(t) \in 1..12

\* C29: from getCurrentMonth() on and after any clicks on the month buttons,
\* whenever the year of the month state is within 1000..9999 the month state
\* is a well-formed "YYYY-MM" token.
C29_MonthTokenWellFormed ==
  (navPage # "none" /\ StateYear(month) \in 1000..9999) =>
    WellFormedToken(month)

\* three clicks back from January 2024 have reached October 2023
C29_Witness ==
  /\ navCount = 3
  /\ lastNav = [from |-> Tok("2", "0", "2", "3", "1", "1"), delta |-> -1]
  /\ month = Tok("2", "0", "2", "3", "1", "0")

(***************************************************************************)
(* C30: route resolution ends at a page                                    *)
(***************************************************************************)
\* the page a path leads to for a signed-in user
SignedInPage(path) ==
  CASE path = "/expenses" -> "Expenses"
    [] path = "/budgets" -> "Budgets"
    [] OTHER -> "Dashboard"

\* C30: with loading false, following the redirects from any requested
\* path ("/" and unknown paths included) ends after at most two of them at
\* a rendered page, never at a further redirect: the Login page (Signup
\* when /signup was requested) without a user, and one of Dashboard,
\* Expenses and Budgets with a user.
C30_RouteResolutionEnds ==
  /\ [](~providerLoading =>
          /\ routeShown.kind = "page"
          /\ user = Null => routeShown.page \in PublicPages
          /\ user # Null => routeShown.page \in ProtectedPages)
  /\ [](routeShown.kind # "navigate")
  /\ [][\A path \in Paths :
          (lastVisit' = path /\ ~providerLoading /\ Visit(path)) =>
            /\ user = Null =>
                 routeShown' =
                   Page(IF path = "/signup" THEN "Signup" ELSE "Login")
            /\ user # Null => routeShown' = Page(SignedInPage(path))]_vars

\* an unknown path was requested without a user: two redirects later the
\* login page is shown
C30_Witness ==
  /\ lastVisit = "/reports"
  /\ ~providerLoading
  /\ user = Null
  /\ routePath = "/login"
  /\ routeShown = Page("Login")

====
